---- MODULE Spec2Model ----
(***************************************************************************)
(* State-machine model of cli/backend_base.py (BaseBackend) and the parts  *)
(* of cli/pnda_cli_utils.py it uses: the wave executor                     *)
(* _wait_on_host_operations, the connectivity poller, the per-host         *)
(* bootstrap pipeline, the bootstrap status checker and the create/expand  *)
(* controllers that sequence them.                                         *)
(*                                                                         *)
(* Strings that the code concatenates or searches (instance keys) are      *)
(* sequences of tokens; '+' is \o and 'x in key' is a contiguous           *)
(* sub-sequence test.  MILLI_TIME() is the variable now, measured from the *)
(* entry of the current timed phase: the code only ever uses differences   *)
(* of clock readings taken inside one phase.                               *)
(*                                                                         *)
(* Every Queue.put of a thread is one step.  The two export Queues are     *)
(* kept as the bags of the elements put on them: their one reader          *)
(* (_install_pnda, line 474) takes list(set(queue.queue)), which does not  *)
(* depend on the order of the puts.                                        *)
(***************************************************************************)
EXTENDS Integers, Sequences, FiniteSets, Bags, TLC

\* ---------------------------------------------------------------- bounds
\* Largest number of instances the provisioner returns.
MaxHosts == 3
\* Largest MAX_SIMULTANEOUS_OUTBOUND_CONNECTIONS tried (the wave size).
MaxW == 2
\* Largest number of get_instance_map / clear_instance_map_cache calls made
\* in a row on one backend object.
MaxCalls == 3
\* Largest number of operations handed to _wait_on_host_operations alone.
MaxOps == 5
\* Largest number of to_runfile calls made in one run.
MaxWrites == 2
\* The largest number of hosts in the connectivity phase looked at alone.
MaxPoll == 2
\* Largest number of init_runfile calls, after the first, that name a new
\* file.
MaxInits == 1
\* Largest number of files of the repository that are absent from the
\* working directory of a _bootstrap call.
MaxMissing == 1

\* ------------------------------------------------------ program constants
\* wait_seconds = 2 (stagger between thread starts behind a bastion)
wait_seconds == 2
\* time.sleep(2) between two connectivity probes of one host
retry_seconds == 2
\* MILLI_TIME = int(round(time.time() * 1000))
MS_PER_SECOND == 1000
\* 10 * 60 * 1000, the give-up limit of do_wait
GIVE_UP_MS == 10 * 60 * 1000

\* Clock readings the model distinguishes: the start of a phase, the end of
\* a stagger or retry sleep begun then, and readings exactly at and well
\* after the give-up limit.
TimePoints ==
    {0, wait_seconds * MS_PER_SECOND, GIVE_UP_MS, GIVE_UP_MS + 100000}

\* ------------------------------------------------------- string helpers
\* Python's 'sub in s' for strings, on token sequences.
Contains(sub, s) ==
    \E i \in 0..(Len(s) - Len(sub)) :
        \A j \in 1..Len(sub) : s[i + j] = sub[j]

\* self._cluster + '-' + name
InstanceKey(cluster, name) ==
    cluster \o <<"-">> \o name

\* ----------------------------------------------------------- node config
\* load_node_config(): the names of the special instances.
node_config ==
    [salt_master_instance |-> <<"saltmaster">>,
     bastion_instance     |-> <<"bastion">>,
     console_instance     |-> <<"saltmaster">>]

\* Cluster names tried.
Clusters == {<<"pnda">>}

\* ------------------------------------------------------------ variables
VARIABLES
    cmd,                  \* "create" or "expand": the public method running
    cluster,              \* self._cluster
    thread_set_size,      \* pnda_env['cli']['MAX_SIMULTANEOUS_OUTBOUND_CONNECTIONS']
    provisioned,          \* what fill_instance_map() returns (the provisioner)
    pc,                   \* position of the coordinating (main) thread
    cached_instance_map,  \* self._cached_instance_map
    instance_map,         \* the local instance_map of the running method
    action,               \* _wait_on_host_operations: its action argument
    thread_list,          \* its thread_list argument, one record per Thread
    bastion_used,         \* its bastion_used argument
    errors_given,         \* whether its errors argument is not None
    errors,               \* the Queue passed as errors (or the current Queue)
    epc,                  \* position inside _wait_on_host_operations
    set_idx,              \* index of the current thread_set (1-based)
    pos,                  \* index inside the current thread_set (1-based)
    main_wake,            \* when the main thread's time.sleep() ends
    check_results,        \* _check_hosts_bootstrapped: check_results Queue
    sm_frame,             \* the saltmaster's _bootstrap call made inline by create
    main_time_start,      \* time_start of the bastion wait loop in _install_pnda
    raised,               \* the exception that ended the run, or <<>>
    now,                  \* MILLI_TIME(), from the entry of the current phase
    phase_log,            \* the controller phases entered, in order
    cached_obj,           \* identity of the object in self._cached_instance_map
    calls,                \* the get_instance_map / clear_instance_map_cache calls made
    remote,               \* whether a probe, transfer or remote command was issued
    start_log,            \* _wait_on_host_operations: the thread.start() calls, in order
    join_log,             \* the thread sets whose join loop has completed, in order
    runfile,              \* RUNFILE: the name it holds and that file on disk
    writes,               \* the to_runfile calls made: file, pairs and outcome
    files,                \* the files of the working directory that exist
    job,                  \* one _bootstrap call: its arguments, locals and position
    node,                 \* the host that call works on: files received, commands run
    export_q,             \* the bootstrap_files and bootstrap_commands Queues,
                          \* each as the bag of the elements put on it
    platform_salt_tarball,  \* _install_pnda's local of that name, <<>> for None
    platform_certs_tarball  \* _install_pnda's local of that name, <<>> for None

vars ==
    <<cmd, cluster, thread_set_size, provisioned, pc, cached_instance_map,
      instance_map, action, thread_list, bastion_used, errors_given, errors,
      epc, set_idx, pos, main_wake, check_results, sm_frame, main_time_start,
      raised, now,
      phase_log, cached_obj, calls, remote, start_log, join_log, runfile,
      writes, files, job, node, export_q, platform_salt_tarball,
      platform_certs_tarball>>

config_vars == <<cmd, cluster, thread_set_size, provisioned>>
exec_vars == <<action, thread_list, bastion_used, errors_given, epc, set_idx, pos>>
cache_vars == <<cached_obj, calls>>
log_vars == <<start_log, join_log>>
file_vars == <<runfile, writes, files>>
tarball_vars == <<platform_salt_tarball, platform_certs_tarball>>
pipe_vars == <<job, node, export_q, tarball_vars>>

\* --------------------------------------------------------- the provisioner
DigitToken == <<"1", "2", "3", "4", "5", "6">>

\* One instance as fill_instance_map() of a deployment target describes it.
\* Every fresh descriptor carries bootstrapped = False; is_saltmaster says
\* whether the descriptor has the key "is_saltmaster".
Instance(j, name, node_type) ==
    [key                |-> <<>>,
     name               |-> name,
     node_type          |-> node_type,
     node_idx           |-> <<DigitToken[j]>>,
     is_saltmaster      |-> FALSE,
     private_ip_address |-> <<"10.0.0", DigitToken[j]>>,
     ip_address         |-> <<"192.0.2", DigitToken[j]>>,
     bootstrapped       |-> FALSE]

\* The instances position j of a map of n may hold: the saltmaster comes
\* first, the second may be the bastion, the last may carry no role, the
\* others carry one (kafka).
InstanceChoices(j, n) ==
    IF j = 1 THEN {Instance(j, <<"saltmaster">>, "saltmaster")}
    ELSE {Instance(j, <<"kafka", "-", DigitToken[j]>>, "kafka")}
         \cup (IF j = n THEN {Instance(j, <<"tools", "-", DigitToken[j]>>, "")}
               ELSE {})
         \cup (IF j = 2 THEN {Instance(j, <<"bastion">>, "bastion")} ELSE {})

\* fill_instance_map(): the maps the provisioner can return for cluster c, as
\* the sequence of (key, descriptor) in the dictionary's iteration order.
fill_instance_map(c) ==
    UNION {
        {[j \in 1..n |-> [m[j] EXCEPT !.key = InstanceKey(c, m[j].name)]] :
            m \in {f \in [1..n -> UNION {InstanceChoices(j, n) : j \in 1..n}] :
                      \A j \in 1..n : f[j] \in InstanceChoices(j, n)}} :
        n \in 1..MaxHosts}

\* 'key in instance_map'
HasKey(map, key) ==
    \E j \in 1..Len(map) : map[j].key = key

\* instance_map[key]
Lookup(map, key) ==
    map[CHOOSE j \in 1..Len(map) : map[j].key = key]

\* ------------------------------------------------------------- threads
\* Thread(target=..., args=[...]) before start(): one record per Thread.
\* kind is the target ("do_wait", "_bootstrap", "do_check"), host the index
\* of the instance in instance_map.  succ counts the times the target's
\* remote call succeeded, failed says that the target ended in failure,
\* starts counts the calls of start(), put the Queue.put calls _bootstrap has
\* made on the export Queues.  The locals time_start and wake are dropped (0)
\* when the target returns.
Thread(kind, host) ==
    [kind |-> kind, host |-> host, st |-> "new", pc |-> "entry",
     time_start |-> 0, wake |-> 0, succ |-> 0, failed |-> FALSE,
     starts |-> 0, joined |-> FALSE, put |-> 0]

\* A slicing slip: sets of size + 1 threads.
thread_sets_oversized(n, size) ==
    [k \in 1..((n + size) \div (size + 1)) |->
        [p \in 1..(IF k * (size + 1) <= n THEN size + 1
                   ELSE n - (k - 1) * (size + 1)) |->
            (k - 1) * (size + 1) + p]]

\* thread_sets = [thread_list[x:x+size] for x in xrange(0, len(thread_list), size)]
\* as the indexes into thread_list of each set's members.
thread_sets(n, size) ==
    [k \in 1..((n + size - 1) \div size) |->
        [p \in 1..(IF k * size <= n THEN size ELSE n - (k - 1) * size) |->
            (k - 1) * size + p]]

ThreadSets == thread_sets(Len(thread_list), thread_set_size)

\* Walking a thread set from its end.
Current_reversed == ThreadSets[set_idx][Len(ThreadSets[set_idx]) + 1 - pos]

\* The Thread the main thread is at inside _wait_on_host_operations.
Current == ThreadSets[set_idx][pos]

\* ------------------------------------------------------------------ Init
\* RUNFILE after init_runfile(cluster) made at second name (counted from the
\* first call): 'cli/logs/<cluster>.<int(time.time())>.run', a file that does
\* not exist before the first to_runfile on it.
init_runfile(name) == [name |-> name, exists |-> FALSE, data |-> <<>>]

\* RUNFILE before the first to_runfile of a run.
NoRunfile == init_runfile(0)

\* The state of a new BaseBackend object and of the process around it:
\* self._cached_instance_map = None, no thread, no queue, nothing issued.
InitRest ==
    /\ cached_instance_map = <<>>
    /\ cached_obj = 0
    /\ calls = <<>>
    /\ remote = FALSE
    /\ start_log = <<>>
    /\ join_log = <<>>
    /\ runfile = NoRunfile
    /\ writes = <<>>
    /\ instance_map = <<>>
    /\ action = ""
    /\ thread_list = <<>>
    /\ bastion_used = FALSE
    /\ errors_given = FALSE
    /\ errors = <<>>
    /\ epc = "idle"
    /\ set_idx = 1
    /\ pos = 1
    /\ main_wake = 0
    /\ check_results = <<>>
    /\ sm_frame = [pc |-> "idle", failed |-> FALSE, put |-> 0]
    /\ main_time_start = 0
    /\ raised = <<>>
    /\ now = 0

\* No _bootstrap call is looked at in detail: nothing built, a host on which
\* nothing was received or run, and empty export Queues.
NoJob == [pc |-> "none"]
NoHost ==
    [received |-> {}, executed |-> 0, scripts |-> <<>>, status |-> 0,
     exited |-> FALSE, sentinel |-> FALSE]
NoExport == [files |-> EmptyBag, commands |-> EmptyBag]

InitPipe ==
    /\ job = NoJob
    /\ node = NoHost
    /\ export_q = NoExport
    /\ platform_salt_tarball = <<>>
    /\ platform_certs_tarball = <<>>

\* The local files of a cluster that the backend writes or removes:
\* cli/ssh_config-<cluster>, cli/socks_proxy-<cluster>, cli/pnda_env_<cluster>.sh
LocalFiles == {"ssh_config", "socks_proxy", "pnda_env_sh"}

\* One element of files_to_scp: the directory it is read from and its
\* basename, under which scp puts it into /tmp on the host.
File(dir, name) == [dir |-> dir, name |-> name]

\* The name under which files holds a file of files_to_scp:
\* cli/pnda_env_<cluster>.sh as in LocalFiles, any other by its path.
local_file(file) ==
    IF file.dir = "cli" THEN file.name \o "_sh"
    ELSE file.dir \o "/" \o file.name

\* os.path.isfile(file), and what scp and tar.add find when they open it.
isfile(file, existing) == local_file(file) \in existing

\* volume_config = 'bootstrap-scripts/%s/%s' % (flavor, 'volume-config.yaml')
volume_config_file == File("bootstrap-scripts/flavor", "volume-config.yaml")

\* The files of the repository that _bootstrap names for instances of
\* node_types without testing that they are there: the common scripts, the
\* script of the node type in bootstrap-scripts/ and the volume config.
RepoFiles(node_types) ==
    {local_file(File("bootstrap-scripts", n)) :
        n \in {"package-install", "base", "volume-mappings",
               "saltmaster-common"} \cup node_types}
    \cup {local_file(volume_config_file)}

\* The files _bootstrap uses only when os.path.isfile finds them: the script
\* of the node type in bootstrap-scripts/<flavor>/ and git.pem.
OptionalFiles(node_types) ==
    {local_file(File("bootstrap-scripts/flavor", n)) : n \in node_types}
    \cup {local_file(File(".", "git.pem"))}

\* The node types of the instances fill_instance_map describes.
NodeTypes == {"saltmaster", "kafka", "bastion"}

\* The working directory create and expand start in: a checkout with the
\* scripts of bootstrap-scripts/ and the volume config, without scripts in
\* bootstrap-scripts/<flavor>/ and without git.pem;
\* cli/pnda_env_<cluster>.sh, which the command line front end writes, is
\* there or not.
RunFiles == {RepoFiles(NodeTypes) \cup S : S \in SUBSET {"pnda_env_sh"}}

\* The working directories a _bootstrap call for an instance of node_type
\* can find: any of the cluster's local files and of the optional files,
\* and the files of the repository but for at most MaxMissing of them.
WorkDirs(node_type) ==
    LET types == IF node_type = "" THEN {} ELSE {node_type}
    IN  {L \cup O \cup (RepoFiles(types) \ M) :
            L \in SUBSET LocalFiles, O \in SUBSET OptionalFiles(types),
            M \in {m \in SUBSET RepoFiles(types) :
                      Cardinality(m) <= MaxMissing}}

\* A run of create, expand or destroy on a new backend object.  destroy
\* finds any of the local files left by earlier runs.
Init ==
    /\ cmd \in {"create", "expand", "destroy"}
    /\ cluster \in Clusters
    /\ IF cmd = "destroy"
       THEN /\ thread_set_size = 1
            /\ provisioned = <<>>
            /\ pc = "destroy"
            /\ phase_log = <<"destroy">>
            /\ files \in SUBSET LocalFiles
       ELSE /\ thread_set_size \in 1..MaxW
            /\ provisioned \in fill_instance_map(cluster)
            /\ pc = "check_config"
            /\ phase_log = <<"check_config">>
            /\ files \in RunFiles
    /\ InitRest
    /\ InitPipe

\* utils.LOG_FILE_NAME
LOG_FILE_NAME == "logs/pnda-cli.log"

\* Moving the main thread to controller phase p.
Goto(p) ==
    /\ pc' = p
    /\ phase_log' = Append(phase_log, p)

\* An exception that is recorded while the run goes on with the salt run.
Raise_and_go_on(exc) ==
    /\ raised' = Append(raised, exc)
    /\ Goto("settle")

\* An exception leaves the public method: the run ends.
Raise(exc) ==
    /\ raised' = Append(raised, exc)
    /\ Goto("raised")

\* ------------------------------------------- _wait_on_host_operations
\* The call _wait_on_host_operations(a, threads, bastion, errors): the main
\* thread computes thread_sets and stands before the first thread.start(),
\* or before the errors check when thread_list is empty.
wait_on_host_operations_call(a, threads, bastion, given) ==
    /\ action' = a
    /\ thread_list' = threads
    /\ bastion_used' = bastion
    /\ errors_given' = given
    /\ set_idx' = 1
    /\ pos' = 1
    /\ epc' = IF Len(thread_sets(Len(threads), thread_set_size)) = 0
              THEN "errors" ELSE "start"
    /\ now' = 0
    /\ main_wake' = 0
    /\ start_log' = <<>>
    /\ join_log' = <<>>

\* Going on to the errors check after the last start of a set, without the
\* join loop.
AfterStart_without_join ==
    IF pos < Len(ThreadSets[set_idx])
    THEN epc' = "start" /\ pos' = pos + 1
    ELSE epc' = "errors" /\ pos' = 1

\* After a thread.start() (and its stagger sleep): the next thread of the
\* set, or the join loop of the set.
AfterStart ==
    IF pos < Len(ThreadSets[set_idx])
    THEN epc' = "start" /\ pos' = pos + 1
    ELSE epc' = "join" /\ pos' = 1

\* Starting the threads of a set without any pause.
staggers_never(bastion) ==
    FALSE

\* Whether a start is followed by time.sleep(wait_seconds).
staggers(bastion) ==
    bastion

\* thread.start() for the current thread of the current set.
wait_on_host_operations_start ==
    /\ epc = "start"
    /\ thread_list' = [thread_list EXCEPT
                          ![Current].st = "running",
                          ![Current].starts = thread_list[Current].starts + 1]
    /\ IF staggers(bastion_used)
       THEN /\ epc' = "sleep"
            /\ main_wake' = now + wait_seconds * MS_PER_SECOND
            /\ pos' = pos
       ELSE /\ AfterStart
            /\ main_wake' = main_wake
    /\ start_log' = Append(start_log, Current)
    /\ UNCHANGED <<config_vars, pipe_vars, cache_vars, remote, join_log, file_vars, pc, phase_log, cached_instance_map, instance_map,
                   action, bastion_used, errors_given, set_idx, errors,
                   check_results, sm_frame, main_time_start, raised, now>>

\* time.sleep(wait_seconds) returns.
wait_on_host_operations_sleep ==
    /\ epc = "sleep"
    /\ now >= main_wake
    /\ AfterStart
    /\ UNCHANGED <<config_vars, pipe_vars, cache_vars, remote, log_vars, file_vars, pc, phase_log, cached_instance_map, instance_map,
                   action, thread_list, bastion_used, errors_given, set_idx,
                   errors, main_wake, check_results, sm_frame, main_time_start,
                   raised, now>>

\* A join that does not wait for the thread to finish.
join_returns_at_once(st) ==
    st # "new"

\* Whether thread.join() can return for a thread in state st.
join_returns(st) ==
    st = "done"

\* Leaving for the errors check after the first set.
after_set_early(k, n) ==
    [epc |-> "errors", set_idx |-> k]

\* After the last join of set k of n sets: the next set or the errors check.
after_set(k, n) ==
    IF k < n THEN [epc |-> "start", set_idx |-> k + 1]
    ELSE [epc |-> "errors", set_idx |-> k]

\* A join loop that leaves for the errors check as soon as the queue holds an
\* error, without starting the sets that remain.
wait_on_host_operations_join_fail_fast ==
    /\ epc = "join"
    /\ join_returns(thread_list[Current].st)
    /\ thread_list' = [thread_list EXCEPT ![Current].joined = TRUE]
    /\ IF pos < Len(ThreadSets[set_idx])
       THEN /\ pos' = pos + 1
            /\ UNCHANGED <<epc, set_idx>>
       ELSE /\ pos' = 1
            /\ epc' = IF Len(errors) > 0 THEN "errors"
                      ELSE after_set(set_idx, Len(ThreadSets)).epc
            /\ set_idx' = IF Len(errors) > 0 THEN set_idx
                          ELSE after_set(set_idx, Len(ThreadSets)).set_idx
    /\ join_log' = (IF pos < Len(ThreadSets[set_idx]) THEN join_log
                  ELSE Append(join_log, set_idx))
    /\ UNCHANGED <<config_vars, pipe_vars, cache_vars, remote, start_log, file_vars, pc, phase_log, cached_instance_map, instance_map,
                   action, bastion_used, errors_given, errors, main_wake,
                   check_results, sm_frame, main_time_start, raised, now>>

\* thread.join() for the current thread of the current set.
wait_on_host_operations_join ==
    /\ epc = "join"
    /\ join_returns(thread_list[Current].st)
    /\ thread_list' = [thread_list EXCEPT ![Current].joined = TRUE]
    /\ IF pos < Len(ThreadSets[set_idx])
       THEN /\ pos' = pos + 1
            /\ UNCHANGED <<epc, set_idx>>
       ELSE /\ pos' = 1
            /\ epc' = after_set(set_idx, Len(ThreadSets)).epc
            /\ set_idx' = after_set(set_idx, Len(ThreadSets)).set_idx
    /\ join_log' = (IF pos < Len(ThreadSets[set_idx]) THEN join_log
                  ELSE Append(join_log, set_idx))
    /\ UNCHANGED <<config_vars, pipe_vars, cache_vars, remote, start_log, file_vars, pc, phase_log, cached_instance_map, instance_map,
                   action, bastion_used, errors_given, errors, main_wake,
                   check_results, sm_frame, main_time_start, raised, now>>

\* Draining the queue without raising.
process_thread_errors_lenient(a, q) ==
    [raise |-> FALSE, q |-> <<>>,
     exc |-> [type |-> "", action |-> a,
              error_message |-> [text |-> "", host |-> <<>>], log |-> ""]]

\* _process_thread_errors(action, errors): the first message of a non-empty
\* queue is taken and raised inside one Exception.
process_thread_errors(a, q) ==
    IF Len(q) > 0
    THEN [raise |-> TRUE, q |-> Tail(q),
          exc |-> [type |-> "Exception", action |-> a,
                   error_message |-> Head(q), log |-> LOG_FILE_NAME]]
    ELSE [raise |-> FALSE, q |-> q,
          exc |-> [type |-> "", action |-> a,
                   error_message |-> [text |-> "", host |-> <<>>], log |-> ""]]

\* A create that bootstraps the hosts right after the connectivity wait.
after_phase_unordered(c, p) ==
    CASE p = "check_hosts_bootstrapped" -> "mark_bootstrapped"
      [] p = "executor" -> "returned"
      [] p = "wait_for_host_connectivity" -> "bootstrap_hosts"
      [] OTHER ->
            (IF c = "create" THEN "export_bootstrap_resources" ELSE "settle")

\* Where the caller of _wait_on_host_operations continues when it returns.
after_phase(c, p) ==
    CASE p = "check_hosts_bootstrapped" -> "mark_bootstrapped"
      [] p = "executor" -> "returned"
      [] p = "wait_for_host_connectivity" ->
            (IF c = "create" THEN "stage_salt" ELSE "bootstrap_hosts")
      [] OTHER ->
            (IF c = "create" THEN "export_bootstrap_resources" ELSE "settle")

\* 'if errors is not None: self._process_thread_errors(action, errors)' and
\* the return to the caller.
wait_on_host_operations_return ==
    /\ epc = "errors"
    /\ epc' = "idle"
    /\ now' = 0
    /\ main_wake' = 0
    /\ LET r == process_thread_errors(action, errors)
       IN  IF errors_given /\ r.raise
           THEN /\ errors' = r.q
                /\ Raise(r.exc)
           ELSE /\ errors' = errors
                /\ Goto(after_phase(cmd, pc))
                /\ raised' = raised
    /\ start_log' = <<>>
    /\ join_log' = <<>>
    /\ UNCHANGED <<config_vars, pipe_vars, cache_vars, remote, file_vars, cached_instance_map, instance_map, action,
                   thread_list, bastion_used, errors_given, set_idx, pos,
                   check_results, sm_frame, main_time_start>>

\* --------------------------------------------------------------- workers
Running(i, kind) ==
    /\ i \in 1..Len(thread_list)
    /\ thread_list[i].kind = kind
    /\ thread_list[i].st = "running"

\* The instance a thread was created for.
InstanceOf(i) ==
    instance_map[thread_list[i].host]

\* -- do_wait (the target of _wait_for_host_connectivity's threads)
\* 'time_start = MILLI_TIME()'
do_wait_time_start(i) ==
    /\ Running(i, "do_wait")
    /\ thread_list[i].pc = "entry"
    /\ thread_list' = [thread_list EXCEPT ![i].time_start = now, ![i].pc = "ssh"]
    /\ UNCHANGED <<config_vars, pipe_vars, cache_vars, remote, log_vars, file_vars, pc, phase_log, cached_instance_map, instance_map,
                   action, bastion_used, errors_given, epc, set_idx, pos, errors,
                   main_wake, check_results, sm_frame, main_time_start, raised,
                   now>>

\* What do_wait does when ssh(['ls ~']) returned: 'break'.
do_wait_after_success(t) ==
    [t EXCEPT !.succ = t.succ + 1, !.st = "done", !.pc = "return",
              !.time_start = 0, !.wake = 0]

\* ssh(['ls ~'], cluster, host) returns: the host is reachable.
do_wait_ssh_ok(i) ==
    /\ Running(i, "do_wait")
    /\ thread_list[i].pc = "ssh"
    /\ remote' = TRUE
    /\ thread_list[i].succ < 2
    /\ thread_list' = [thread_list EXCEPT ![i] = do_wait_after_success(thread_list[i])]
    /\ UNCHANGED <<config_vars, pipe_vars, cache_vars, log_vars, file_vars, pc, phase_log, cached_instance_map, instance_map,
                   action, bastion_used, errors_given, epc, set_idx, pos, errors,
                   main_wake, check_results, sm_frame, main_time_start, raised,
                   now>>

\* An off-by-one limit: giving up at exactly ten minutes.
gives_up_at_limit(t, time_start) ==
    t - time_start >= GIVE_UP_MS

\* 'MILLI_TIME() - time_start > 10 * 60 * 1000'
gives_up(t, time_start) ==
    t - time_start > GIVE_UP_MS

\* Giving up as soon as any host of the phase has given up.
do_wait_gives_up_with_sibling(i) ==
    gives_up(now, thread_list[i].time_start) \/ Len(errors) > 0

\* The give-up test of thread i's do_wait: its own time_start decides.
do_wait_gives_up(i) ==
    gives_up(now, thread_list[i].time_start)

\* A give-up message that leaves the host out.
wait_error_unnamed(host) ==
    [text |-> "Giving up waiting for connectivity to", host |-> <<>>]

\* 'Giving up waiting for connectivity to %s' % host
wait_error(host) ==
    [text |-> "Giving up waiting for connectivity to", host |-> host]

\* A give-up without the break: the message is put and the loop goes on.
do_wait_ssh_fail_no_break(i) ==
    /\ Running(i, "do_wait")
    /\ thread_list[i].pc = "ssh"
    /\ remote' = TRUE
    /\ errors' = IF do_wait_gives_up(i)
                 THEN Append(errors, wait_error(InstanceOf(i).private_ip_address))
                 ELSE errors
    /\ thread_list' = [thread_list EXCEPT
                          ![i].pc = "sleep",
                          ![i].failed = do_wait_gives_up(i),
                          ![i].wake = now + retry_seconds * MS_PER_SECOND]
    /\ UNCHANGED <<config_vars, pipe_vars, cache_vars, log_vars, file_vars, pc, phase_log, cached_instance_map, instance_map,
                   action, bastion_used, errors_given, epc, set_idx, pos,
                   main_wake, check_results, sm_frame, main_time_start, raised,
                   now>>

\* ssh(['ls ~'], cluster, host) raises: give up after the limit, else sleep.
do_wait_ssh_fail(i) ==
    /\ Running(i, "do_wait")
    /\ thread_list[i].pc = "ssh"
    /\ remote' = TRUE
    /\ IF do_wait_gives_up(i)
       THEN /\ errors' = Append(errors, wait_error(InstanceOf(i).private_ip_address))
            /\ thread_list' = [thread_list EXCEPT ![i].failed = TRUE,
                                                  ![i].st = "done",
                                                  ![i].pc = "return",
                                                  ![i].time_start = 0,
                                                  ![i].wake = 0]
       ELSE /\ errors' = errors
            /\ thread_list' = [thread_list EXCEPT ![i].pc = "sleep",
                                   ![i].wake = now + retry_seconds * MS_PER_SECOND]
    /\ UNCHANGED <<config_vars, pipe_vars, cache_vars, log_vars, file_vars, pc, phase_log, cached_instance_map, instance_map,
                   action, bastion_used, errors_given, epc, set_idx, pos,
                   main_wake, check_results, sm_frame, main_time_start, raised,
                   now>>

\* time.sleep(2) returns: the next probe.
do_wait_sleep(i) ==
    /\ Running(i, "do_wait")
    /\ thread_list[i].pc = "sleep"
    /\ now >= thread_list[i].wake
    /\ thread_list' = [thread_list EXCEPT ![i].pc = "ssh", ![i].wake = 0]
    /\ UNCHANGED <<config_vars, pipe_vars, cache_vars, remote, log_vars, file_vars, pc, phase_log, cached_instance_map, instance_map,
                   action, bastion_used, errors_given, epc, set_idx, pos, errors,
                   main_wake, check_results, sm_frame, main_time_start, raised,
                   now>>

bastion_name == InstanceKey(cluster, node_config.bastion_instance)
saltmaster_name == InstanceKey(cluster, node_config.salt_master_instance)

\* Index in instance_map of instance_map[cluster + '-' + salt-master-instance].
saltmaster_idx ==
    CHOOSE j \in 1..Len(instance_map) : instance_map[j].key = saltmaster_name

\* saltmaster_ip = saltmaster['private_ip_address']
saltmaster_ip == instance_map[saltmaster_idx].private_ip_address

\* One element of cmds_to_run: the kind of command, the file, variable or
\* path it names, and its argument (a token sequence, <<>> for none).
Cmd(kind, name, arg) == [kind |-> kind, name |-> name, arg |-> arg]

\* 'export X=%s' % v if v is not None else ':'
export_or_noop(name, value) ==
    IF value # <<>> THEN Cmd("export", name, value) ELSE Cmd(":", "", <<>>)

\* requested_volumes is not None and key in requested_volumes
declares(requested_volumes, key) ==
    /\ requested_volumes.tag = "dict"
    /\ key \in requested_volumes.keys

\* node_type == self._node_config['salt-master-instance'] or
\* "is_saltmaster" in instance
is_saltmaster(instance) ==
    \/ <<instance.node_type>> = node_config.salt_master_instance
    \/ instance.is_saltmaster

\* files_to_scp as _bootstrap builds it in a working directory with the
\* files existing: the script of the node type is the one of
\* bootstrap-scripts/<flavor>/ when that is a file and else the one of
\* bootstrap-scripts/, taken without a test; git.pem is added for the
\* saltmaster when it is a file.
files_to_scp(instance, existing) ==
    LET in_flavor == File("bootstrap-scripts/flavor", instance.node_type)
        type_script == IF isfile(in_flavor, existing) THEN in_flavor
                       ELSE File("bootstrap-scripts", instance.node_type)
    IN  <<File("cli", "pnda_env"),
          File("bootstrap-scripts", "package-install"),
          File("bootstrap-scripts", "base"),
          File("bootstrap-scripts", "volume-mappings"),
          type_script>>
        \o (IF is_saltmaster(instance)
            THEN <<File("bootstrap-scripts", "saltmaster-common")>>
                 \o (IF isfile(File(".", "git.pem"), existing)
                     THEN <<File(".", "git.pem")>> ELSE <<>>)
            ELSE <<>>)

\* A command list in which the completion mark is made before the role
\* script runs.
cmds_to_run_mark_early(instance, saltmaster, cl, flavor, branch, salt_tarball, certs_tarball, requested_volumes) ==
    <<Cmd("source", "pnda_env", cl),
      Cmd("script", "base", <<>>),
      Cmd("touch", "bootstrap_complete", <<>>),
      Cmd("script", instance.node_type, instance.node_idx)>>

\* cmds_to_run as _bootstrap builds it.  A "script" command is the pipeline
\* '(sudo -E /tmp/<name>.sh <arg> 2>&1) | tee -a pnda-bootstrap.log'
\* followed by THROW_BASH_ERROR; a "persist" command writes the declared
\* list under /etc/pnda/disk-config.
cmds_to_run(instance, saltmaster, cl, flavor, branch, salt_tarball, certs_tarball, requested_volumes) ==
    <<Cmd("source", "pnda_env", cl),
      Cmd("export", "PNDA_SALTMASTER_IP", saltmaster),
      Cmd("export", "PNDA_CLUSTER", cl),
      Cmd("export", "PNDA_FLAVOR", flavor),
      Cmd("export", "PLATFORM_GIT_BRANCH", branch),
      export_or_noop("PLATFORM_SALT_TARBALL", salt_tarball),
      export_or_noop("SECURITY_CERTS_TARBALL", certs_tarball),
      Cmd("chmod", "package-install", <<>>),
      Cmd("chmod", "base", <<>>),
      Cmd("chmod", "volume-mappings", <<>>)>>
    \o (IF declares(requested_volumes, "partitions")
        THEN <<Cmd("persist", "partitions", <<>>)>> ELSE <<>>)
    \o (IF declares(requested_volumes, "volumes")
        THEN <<Cmd("persist", "requested-volumes", <<>>)>> ELSE <<>>)
    \o <<Cmd("script", "base", <<>>)>>
    \o (IF is_saltmaster(instance)
        THEN <<Cmd("chmod", "saltmaster-common", <<>>),
               Cmd("script", "saltmaster-common", <<>>)>>
        ELSE <<>>)
    \o <<Cmd("chmod", instance.node_type, <<>>),
         Cmd("script", instance.node_type, instance.node_idx),
         Cmd("touch", "bootstrap_complete", <<>>)>>

\* self._flavor and self._branch of the backend object.
self_flavor == <<"standard">>
self_branch == <<"master">>

\* bootstrap-scripts/<flavor>/volume-config.yaml of a run: the keys of
\* volume_config['classes'][volume_config['instances'][node_type]].  The
\* class of the saltmaster declares partitions and volumes, that of kafka
\* volumes, that of any other node type neither.
volume_config(node_type) ==
    CASE node_type = "saltmaster" -> {"partitions", "volumes"}
      [] node_type = "kafka" -> {"volumes"}
      [] OTHER -> {}

\* _get_volume_info(node_type, config_file): None for an empty node_type,
\* else the volume class of the node type.
get_volume_info(node_type) ==
    IF node_type = "" THEN [tag |-> "None", keys |-> {}]
    ELSE [tag |-> "dict", keys |-> volume_config(node_type)]

\* The Queue.put calls of 'map(bootstrap_files.put, files_to_scp);
\* bootstrap_files.put(volume_config)' and 'map(bootstrap_commands.put,
\* cmds_to_run)', in the order one _bootstrap call makes them: the Queue and
\* the element of each.
export_puts(scp_files, cmds) ==
    [k \in 1..Len(scp_files) |-> [queue |-> "files", item |-> scp_files[k]]]
    \o <<[queue |-> "files",
          item |-> volume_config_file]>>
    \o [k \in 1..Len(cmds) |-> [queue |-> "commands", item |-> cmds[k]]]

\* One Queue.put: the element joins the Queue named.  The only reader of the
\* export Queues takes set(queue.queue), so the order in which the elements
\* of several threads came to lie in a Queue is never read and a Queue is
\* kept as the bag of its elements.
export_put(q, p) ==
    IF p.queue = "files"
    THEN [q EXCEPT !.files = @ (+) SetToBag({p.item})]
    ELSE [q EXCEPT !.commands = @ (+) SetToBag({p.item})]

\* files_to_scp and cmds_to_run as a _bootstrap call of a run builds them
\* for instance.
run_files_to_scp(instance) ==
    files_to_scp(instance, files)

run_cmds_to_run(instance, salt_tarball, certs_tarball) ==
    cmds_to_run(instance, saltmaster_ip, cluster, self_flavor, self_branch,
                salt_tarball, certs_tarball,
                get_volume_info(instance.node_type))

\* -- _bootstrap
\* An except clause that swallows the exception without recording it.
bootstrap_step_silent(p, instance, ok, given) ==
    IF p = "entry" /\ instance.node_type = ""
    THEN [pc |-> "return", exc |-> FALSE, put |-> FALSE]
    ELSE IF ~ok
    THEN [pc |-> "return", exc |-> TRUE, put |-> FALSE]
    ELSE [pc |-> (CASE p = "entry" -> "scp"
                    [] p = "scp" -> "ssh"
                    [] OTHER -> (IF given THEN "put" ELSE "return")),
          exc |-> FALSE, put |-> FALSE]

\* One step of _bootstrap for instance from position p; ok says whether the
\* step's external call succeeded.  "entry" returns at once for an instance
\* without node_type and otherwise builds files_to_scp and cmds_to_run
\* (reading the volume config may raise); "scp" and "ssh" are the two remote
\* calls; after ssh the call goes on to its puts on the export Queues when
\* it was given them (given), else it returns.  exc says that the step
\* raised, put that the except clause ran error_queue.put(ret_val).
bootstrap_step(p, instance, ok, given) ==
    IF p = "entry" /\ instance.node_type = ""
    THEN [pc |-> "return", exc |-> FALSE, put |-> FALSE]
    ELSE IF ~ok
    THEN [pc |-> "return", exc |-> TRUE, put |-> TRUE]
    ELSE [pc |-> (CASE p = "entry" -> "scp"
                    [] p = "scp" -> "ssh"
                    [] OTHER -> (IF given THEN "put" ELSE "return")),
          exc |-> FALSE, put |-> FALSE]

\* The position of a _bootstrap call after its n-th put of puts: the next
\* put, or the return after the last.
after_put(n, puts) ==
    IF n < Len(puts) THEN "put" ELSE "return"

\* 'Error for host %s. %s' % (instance['name'], traceback.format_exc())
bootstrap_error(instance) ==
    [text |-> "Error for host", host |-> instance.name]

\* _bootstrap as the target of a Thread, up to the return of ssh: create
\* passes the salt tarball, no certificate tarball and the two export Queues,
\* expand passes none of them.
bootstrap_thread(i) ==
    /\ Running(i, "_bootstrap")
    /\ thread_list[i].pc \in {"entry", "scp", "ssh"}
    /\ remote' = (remote \/ thread_list[i].pc \in {"scp", "ssh"})
    /\ \E ok \in BOOLEAN :
        LET r == bootstrap_step(thread_list[i].pc, InstanceOf(i), ok,
                                cmd = "create")
        IN  /\ thread_list' =
                 [thread_list EXCEPT
                    ![i].pc = r.pc,
                    ![i].st = IF r.pc = "return" THEN "done" ELSE "running",
                    ![i].succ = IF r.pc = "return" /\ ~r.exc THEN 1 ELSE 0,
                    ![i].failed = r.exc]
            /\ errors' = IF r.put THEN Append(errors, bootstrap_error(InstanceOf(i)))
                         ELSE errors
    /\ UNCHANGED <<config_vars, pipe_vars, cache_vars, log_vars, file_vars, pc, phase_log, cached_instance_map, instance_map,
                   action, bastion_used, errors_given, epc, set_idx, pos,
                   main_wake, check_results, sm_frame, main_time_start, raised,
                   now>>

\* The next Queue.put of thread i's _bootstrap (l.321-324); each put takes
\* and releases the Queue's lock on its own, so the threads of a set take
\* turns between any two of them.  After the last put the target returns.
bootstrap_thread_put(i) ==
    /\ Running(i, "_bootstrap")
    /\ thread_list[i].pc = "put"
    /\ LET puts == export_puts(run_files_to_scp(InstanceOf(i)),
                               run_cmds_to_run(InstanceOf(i),
                                               platform_salt_tarball, <<>>))
           n == thread_list[i].put + 1
       IN  /\ export_q' = export_put(export_q, puts[n])
           /\ thread_list' =
                 [thread_list EXCEPT
                    ![i].put = n,
                    ![i].pc = after_put(n, puts),
                    ![i].st = IF after_put(n, puts) = "return" THEN "done"
                              ELSE "running",
                    ![i].succ = IF after_put(n, puts) = "return" THEN 1 ELSE 0]
    /\ UNCHANGED <<config_vars, job, node, tarball_vars, cache_vars, remote, log_vars, file_vars, pc, phase_log, cached_instance_map, instance_map,
                   action, bastion_used, errors_given, epc, set_idx, pos,
                   errors, main_wake, check_results, sm_frame, main_time_start,
                   raised, now>>

\* -- do_check (the target of _check_hosts_bootstrapped's threads)
\* Recording the host_key whatever the probe's outcome.
do_check_put_always(q, host_key, ok) ==
    Append(q, host_key)

\* What do_check leaves in check_results: the host_key when
\* ssh(['ls ~/.bootstrap_complete']) returned, nothing when it raised.
do_check_put(q, host_key, ok) ==
    IF ok THEN Append(q, host_key) ELSE q

do_check(i) ==
    /\ Running(i, "do_check")
    /\ remote' = TRUE
    /\ \E ok \in BOOLEAN :
        /\ check_results' = do_check_put(check_results, InstanceOf(i).key, ok)
        /\ thread_list' = [thread_list EXCEPT ![i].succ = IF ok THEN 1 ELSE 0,
                                              ![i].failed = ~ok,
                                              ![i].st = "done",
                                              ![i].pc = "return"]
    /\ UNCHANGED <<config_vars, pipe_vars, cache_vars, log_vars, file_vars, pc, phase_log, cached_instance_map, instance_map,
                   action, bastion_used, errors_given, epc, set_idx, pos, errors,
                   main_wake, sm_frame, main_time_start, raised, now>>

\* ----------------------------------------------------------------- clock
\* Some thread is inside a call or a loop that reads the clock.
ClockObserved ==
    \/ epc = "sleep"
    \/ pc \in {"wait_bastion", "wait_bastion_sleep"}
    \/ \E i \in 1..Len(thread_list) :
          /\ thread_list[i].kind = "do_wait"
          /\ thread_list[i].st = "running"
          /\ thread_list[i].pc \in {"ssh", "sleep"}

\* A sleep that has not ended yet, or a loop whose give-up limit has not
\* passed yet: a later reading of the clock still makes a difference.
ClockAwaited ==
    \/ epc = "sleep" /\ main_wake > now
    \/ pc = "wait_bastion_sleep" /\ main_wake > now
    \/ /\ pc \in {"wait_bastion", "wait_bastion_sleep"}
       /\ ~gives_up(now, main_time_start)
    \/ \E i \in 1..Len(thread_list) :
          /\ thread_list[i].kind = "do_wait"
          /\ thread_list[i].st = "running"
          /\ thread_list[i].pc \in {"ssh", "sleep"}
          /\ \/ thread_list[i].wake > now
             \/ ~gives_up(now, thread_list[i].time_start)

\* Time passes, to the next reading the model distinguishes.
Tick ==
    /\ ClockObserved
    /\ \E t \in TimePoints :
          /\ t > now
          /\ \A u \in TimePoints : u > now => t <= u
          /\ now' = t
    /\ UNCHANGED <<config_vars, pipe_vars, cache_vars, remote, log_vars, file_vars, pc, phase_log, cached_instance_map, instance_map,
                   exec_vars, errors, main_wake, check_results, sm_frame,
                   main_time_start, raised>>

\* Time passes beyond the last of TimePoints, to a reading later by more
\* than the give-up limit, as long as something still waits for the clock.
TickLate ==
    /\ ClockObserved
    /\ \A u \in TimePoints : u <= now
    /\ ClockAwaited
    /\ now' = now + GIVE_UP_MS + 100000
    /\ UNCHANGED <<config_vars, pipe_vars, cache_vars, remote, log_vars, file_vars, pc, phase_log, cached_instance_map, instance_map,
                   exec_vars, errors, main_wake, check_results, sm_frame,
                   main_time_start, raised>>

\* ------------------------------------------------------------ controller
\* 'if not self._no_config_check: self._check_config(self._keyfile)':
\* a missing key file or a bad mirror ends the process (sys.exit(1)).
check_config ==
    /\ pc = "check_config"
    /\ \E no_config_check \in BOOLEAN, ok \in BOOLEAN :
          IF no_config_check \/ ok THEN Goto("pre_hook") ELSE Goto("exited")
    /\ UNCHANGED <<config_vars, pipe_vars, cache_vars, remote, log_vars, file_vars, cached_instance_map, instance_map, exec_vars,
                   errors, main_wake, check_results, sm_frame, main_time_start,
                   raised, now>>

\* An exception raised on the main thread outside _process_thread_errors:
\* its type and text, the host the text names (<<>> when it names none) and
\* the log file the text refers to ("" when it refers to none).
plain_exception(type, text, host, log) ==
    [type |-> type, action |-> "",
     error_message |-> [text |-> text, host |-> host], log |-> log]

\* scp(): Exception("Error transferring files to new host %s via SCP. See
\* debug log (%s) for details." % (host, LOG_FILE_NAME))
scp_error(host) ==
    plain_exception("Exception", "Error transferring files", host, LOG_FILE_NAME)

\* ssh(): Exception("Error running ssh commands on host %s. See debug log
\* (%s) for details." % (host, LOG_FILE_NAME))
ssh_error(host) ==
    plain_exception("Exception", "Error running ssh commands", host,
                    LOG_FILE_NAME)

\* json.dump on a file object opened with mode 'r'.
runfile_error ==
    plain_exception("IOError", "File not open for writing", <<>>, "")

\* -- to_runfile (pnda_cli_utils)
\* The keys of the run record and the values written under them; "" stands
\* for a key that is not in a dictionary.
RunKeys == {"cmdline", "bastion", "saltmaster"}
RunValues == {"argv", "bastion", "saltmaster"}

\* The dictionaries to_runfile can be called with: at least one key.
PairChoices ==
    {f \in [RunKeys -> RunValues \cup {""}] : \E k \in RunKeys : f[k] # ""}

\* jrf.update(pairs)
update(jrf, pairs) ==
    [k \in RunKeys |-> IF pairs[k] # "" THEN pairs[k] ELSE jrf[k]]

\* to_runfile(pairs) on the file RUNFILE.  Without the file: mode 'w', the
\* file is created and json.dump writes {} updated with pairs.  With the
\* file: mode 'r', json.load reads the record, and json.dump then writes to a
\* file object that was opened for reading only, which raises and leaves the
\* file as it was.
to_runfile(file, pairs) ==
    IF ~file.exists
    THEN [file |-> [file EXCEPT
                      !.exists = TRUE,
                      !.data = update([k \in RunKeys |-> ""], pairs)],
          raised |-> FALSE]
    ELSE [file |-> file, raised |-> TRUE]

\* {'cmdline': sys.argv, 'bastion': bastion, 'saltmaster': salt-master-instance}
install_pairs ==
    [cmdline |-> "argv", bastion |-> "bastion", saltmaster |-> "saltmaster"]

\* pre_install_pnda / pre_expand_pnda, then to_runfile (create only).
pre_hook ==
    /\ pc = "pre_hook"
    /\ IF cmd = "create"
       THEN LET r == to_runfile(runfile, install_pairs)
            IN  /\ runfile' = r.file
                /\ writes' = Append(writes, [file |-> runfile.name,
                                             pairs |-> install_pairs,
                                             raised |-> r.raised])
                /\ IF r.raised
                   THEN Raise(runfile_error)
                   ELSE Goto("get_instance_map") /\ raised' = raised
       ELSE /\ Goto("get_instance_map")
            /\ UNCHANGED <<runfile, writes, raised>>
    /\ UNCHANGED <<config_vars, pipe_vars, cache_vars, remote, log_vars, files,
                   cached_instance_map, instance_map, exec_vars, errors,
                   main_wake, check_results, sm_frame, main_time_start, now>>

\* The threads _check_hosts_bootstrapped creates, one per instance.
check_threads(map) ==
    [j \in 1..Len(map) |-> Thread("do_check", j)]

\* The number of fill_instance_map() invocations made so far; the k-th
\* invocation returns a new dictionary, object k.
NumFills == Cardinality({k \in 1..Len(calls) : calls[k].filled})

\* get_instance_map(check_bootstrapped) called from a place that continues
\* at ret.  With a falsy cache ('if not self._cached_instance_map': None or
\* an empty dictionary) the map is filled; with check_bootstrapped
\* _check_hosts_bootstrapped starts (errors argument None), else the map is
\* cached and returned at once.  With a truthy cache the cached object is
\* returned.
get_instance_map_call(check_bootstrapped, ret) ==
    /\ epc = "idle"
    /\ IF cached_instance_map = <<>>
       THEN /\ instance_map' = provisioned
            /\ IF check_bootstrapped
               THEN /\ check_results' = <<>>
                    /\ wait_on_host_operations_call("checking bootstrap status",
                           check_threads(provisioned),
                           HasKey(provisioned, bastion_name), FALSE)
                    /\ Goto("check_hosts_bootstrapped")
                    /\ calls' = Append(calls, [op |-> "get", filled |-> TRUE, obj |-> 0,
                                               check |-> TRUE])
                    /\ UNCHANGED <<cached_instance_map, cached_obj>>
               ELSE /\ cached_instance_map' = provisioned
                    /\ cached_obj' = NumFills + 1
                    /\ calls' = Append(calls, [op |-> "get", filled |-> TRUE,
                                               obj |-> NumFills + 1,
                                               check |-> FALSE])
                    /\ Goto(ret)
                    /\ UNCHANGED <<exec_vars, log_vars, check_results, now, main_wake>>
       ELSE /\ instance_map' = cached_instance_map
            /\ calls' = Append(calls, [op |-> "get", filled |-> FALSE,
                                       obj |-> cached_obj,
                                       check |-> check_bootstrapped])
            /\ Goto(ret)
            /\ UNCHANGED <<cached_instance_map, cached_obj, exec_vars, log_vars,
                           check_results, now, main_wake>>
    /\ UNCHANGED <<config_vars, pipe_vars, remote, file_vars, errors, sm_frame,
                   main_time_start, raised>>

\* 'instance_map = self.get_instance_map()' of _install_pnda and
\* 'instance_map = self.get_instance_map(True)' of _expand_pnda.
get_instance_map ==
    /\ pc = "get_instance_map"
    /\ get_instance_map_call(cmd = "expand", "write_ssh_config")

\* clear_instance_map_cache(): 'self._cached_instance_map = None'
clear_instance_map_cache ==
    /\ pc = "api"
    /\ Len(calls) < MaxCalls
    /\ cached_instance_map' = <<>>
    /\ cached_obj' = 0
    /\ calls' = Append(calls, [op |-> "clear", filled |-> FALSE, obj |-> 0,
                                   check |-> FALSE])
    /\ UNCHANGED <<config_vars, pipe_vars, remote, log_vars, file_vars, pc, phase_log,
                   instance_map, exec_vars, errors, main_wake, check_results,
                   sm_frame, main_time_start, raised, now>>

\* get_instance_map(check_bootstrapped) called by a user of the backend.
api_get_instance_map ==
    /\ pc = "api"
    /\ Len(calls) < MaxCalls
    /\ \E check_bootstrapped \in BOOLEAN :
          get_instance_map_call(check_bootstrapped, "api")

\* Where get_instance_map returns to when _check_hosts_bootstrapped is done.
get_instance_map_caller(c) ==
    IF c = "api" THEN "api" ELSE "write_ssh_config"

\* 'while not check_results.empty(): instances[check_results.get()]
\* ['bootstrapped'] = True': the map with every collected key marked.
mark_bootstrapped(map, results) ==
    [j \in 1..Len(map) |->
        IF \E r \in 1..Len(results) : results[r] = map[j].key
        THEN [map[j] EXCEPT !.bootstrapped = TRUE]
        ELSE map[j]]

\* The tail of _check_hosts_bootstrapped and of get_instance_map.
check_hosts_bootstrapped_drain ==
    /\ pc = "mark_bootstrapped"
    /\ instance_map' = mark_bootstrapped(instance_map, check_results)
    /\ cached_instance_map' = instance_map'
    /\ cached_obj' = NumFills
    /\ calls' = [calls EXCEPT ![Len(calls)].obj = NumFills]
    /\ check_results' = <<>>
    /\ Goto(get_instance_map_caller(cmd))
    /\ UNCHANGED <<config_vars, pipe_vars, remote, log_vars, file_vars, exec_vars, errors, main_wake, sm_frame,
                   main_time_start, raised, now>>

\* bastion_ip of _install_pnda / _expand_pnda: None without a bastion.
bastion_ip ==
    IF HasKey(instance_map, bastion_name)
    THEN Lookup(instance_map, bastion_name).ip_address
    ELSE <<>>

\* The files _write_ssh_config opens for writing: the ssh config, and with a
\* bastion_ip the socks proxy script.
ssh_config_files(ip) ==
    IF ip # <<>> THEN {"ssh_config", "socks_proxy"} ELSE {"ssh_config"}

\* _write_ssh_config; create then waits for the bastion when there is one.
write_ssh_config ==
    /\ pc = "write_ssh_config"
    /\ IF cmd = "create" /\ bastion_ip # <<>>
       THEN Goto("wait_bastion")
       ELSE Goto("wait_for_host_connectivity")
    /\ main_time_start' = 0
    /\ now' = 0
    /\ files' = files \cup ssh_config_files(bastion_ip)
    /\ UNCHANGED <<config_vars, pipe_vars, cache_vars, remote, log_vars, runfile, writes, cached_instance_map, instance_map, exec_vars,
                   errors, main_wake, check_results, sm_frame, raised>>

\* One round of the 'sudo yum install -y nc' loop on the bastion.
wait_bastion ==
    /\ pc = "wait_bastion"
    /\ remote' = TRUE
    /\ \E ok \in BOOLEAN :
          IF ok
          THEN Goto("wait_for_host_connectivity") /\ main_wake' = main_wake
          ELSE IF gives_up(now, main_time_start)
          THEN Goto("exited") /\ main_wake' = main_wake
          ELSE /\ pc' = "wait_bastion_sleep"
               /\ phase_log' = phase_log
               /\ main_wake' = now + retry_seconds * MS_PER_SECOND
    /\ UNCHANGED <<config_vars, pipe_vars, cache_vars, log_vars, file_vars, cached_instance_map, instance_map, exec_vars,
                   errors, check_results, sm_frame, main_time_start, raised,
                   now>>

wait_bastion_sleep ==
    /\ pc = "wait_bastion_sleep"
    /\ now >= main_wake
    /\ pc' = "wait_bastion"
    /\ UNCHANGED <<config_vars, pipe_vars, cache_vars, remote, log_vars, file_vars, phase_log, cached_instance_map, instance_map,
                   exec_vars, errors, main_wake, check_results, sm_frame,
                   main_time_start, raised, now>>

\* The threads _wait_for_host_connectivity creates, one per host.
wait_threads(map) ==
    [j \in 1..Len(map) |-> Thread("do_wait", j)]

\* _wait_for_host_connectivity([... for h in instance_map], cluster,
\* bastion_ip is not None): a new wait_errors Queue, then the executor.
wait_for_host_connectivity ==
    /\ pc = "wait_for_host_connectivity"
    /\ epc = "idle"
    /\ errors' = <<>>
    /\ wait_on_host_operations_call("waiting for host connectivity",
           wait_threads(instance_map), bastion_ip # <<>>, TRUE)
    /\ UNCHANGED <<config_vars, pipe_vars, cache_vars, remote, file_vars, pc, phase_log, cached_instance_map, instance_map,
                   check_results, sm_frame, main_time_start, raised>>

\* '%s.tmp' % str(uuid.uuid1()) and '%s.tar.gz' % str(uuid.uuid1())
salt_tarball_name == <<"salt.tgz">>
certs_tarball_name == <<"certs.tgz">>

\* With 'PLATFORM_SALT_LOCAL' in pnda_env['platform_salt'] (local) the
\* tarball is named, built by archive.add, which raises OSError when the path
\* does not exist (~tar_ok), and copied to the saltmaster by scp, which raises
\* on a nonzero exit (~ok).
stage_salt ==
    /\ pc = "stage_salt"
    /\ \E local \in BOOLEAN, tar_ok \in BOOLEAN, ok \in BOOLEAN :
          /\ platform_salt_tarball' = IF local THEN salt_tarball_name ELSE <<>>
          /\ remote' = (remote \/ (local /\ tar_ok))
          /\ IF local /\ ~tar_ok
             THEN Raise(plain_exception("OSError", "No such file or directory",
                                        <<>>, ""))
             ELSE IF local /\ ~ok
             THEN Raise(scp_error(saltmaster_ip))
             ELSE Goto("ship_certs") /\ raised' = raised
    /\ UNCHANGED <<config_vars, job, node, export_q, platform_certs_tarball, cache_vars, log_vars, file_vars, cached_instance_map, instance_map, exec_vars,
                   errors, main_wake, check_results, sm_frame, main_time_start,
                   now>>

\* The outcome of _ship_certs(cluster, saltmaster_ip) under SECURITY_MODE
\* mode: path_key says whether pnda_env['security'] has
\* SECURITY_MATERIAL_PATH, tar_ok whether the archive could be built, scp_ok
\* whether scp exited with 0.  A failure inside the try block is caught: it
\* returns None when the mode is 'permissive', else it raises
\* PNDAConfigException, whose message reads local_certs_path: a name that is
\* unbound when the lookup of the key was what failed (UnboundLocalError).
\* issued says that scp was called, ret is the tarball returned (<<>>: None).
ship_certs_outcome(mode, path_key, tar_ok, scp_ok, host) ==
    IF ~(path_key /\ tar_ok)
    THEN IF mode = "permissive"
         THEN [raise |-> FALSE, issued |-> FALSE, ret |-> <<>>,
               exc |-> plain_exception("", "", <<>>, "")]
         ELSE IF ~path_key
         THEN [raise |-> TRUE, issued |-> FALSE, ret |-> <<>>,
               exc |-> plain_exception("UnboundLocalError",
                           "local variable referenced before assignment",
                           <<>>, "")]
         ELSE [raise |-> TRUE, issued |-> FALSE, ret |-> <<>>,
               exc |-> plain_exception("PNDAConfigException",
                                       "must contain certificates", <<>>, "")]
    ELSE IF ~scp_ok
    THEN [raise |-> TRUE, issued |-> TRUE, ret |-> <<>>, exc |-> scp_error(host)]
    ELSE [raise |-> FALSE, issued |-> TRUE, ret |-> certs_tarball_name,
          exc |-> plain_exception("", "", <<>>, "")]

\* 'if SECURITY_MODE != 'disabled': platform_certs_tarball =
\* self._ship_certs(...)', then bootstrap_errors = Queue.Queue() and the
\* saltmaster's _bootstrap.
ship_certs ==
    /\ pc = "ship_certs"
    /\ \E mode \in {"disabled", "permissive", "enforced"},
          path_key \in BOOLEAN, tar_ok \in BOOLEAN, scp_ok \in BOOLEAN :
          LET r == ship_certs_outcome(mode, path_key, tar_ok, scp_ok,
                                      saltmaster_ip)
          IN  /\ remote' = (remote \/ (mode # "disabled" /\ r.issued))
              /\ IF mode # "disabled" /\ r.raise
                 THEN /\ Raise(r.exc)
                      /\ UNCHANGED <<errors, sm_frame, platform_certs_tarball>>
                 ELSE /\ Goto("bootstrap_saltmaster")
                      /\ platform_certs_tarball' =
                            (IF mode # "disabled" THEN r.ret ELSE <<>>)
                      /\ errors' = <<>>
                      /\ sm_frame' = [pc |-> "entry", failed |-> FALSE, put |-> 0]
                      /\ raised' = raised
    /\ UNCHANGED <<config_vars, job, node, export_q, platform_salt_tarball, cache_vars, log_vars, file_vars, cached_instance_map, instance_map, exec_vars,
                   main_wake, check_results, main_time_start, now>>

\* self._bootstrap(saltmaster, ...) called by the main thread itself, with
\* both tarballs and the two export Queues, up to the return of ssh.
bootstrap_saltmaster ==
    /\ pc = "bootstrap_saltmaster"
    /\ sm_frame.pc \in {"entry", "scp", "ssh"}
    /\ remote' = (remote \/ sm_frame.pc \in {"scp", "ssh"})
    /\ \E ok \in BOOLEAN :
        LET r == bootstrap_step(sm_frame.pc, instance_map[saltmaster_idx], ok,
                                TRUE)
        IN  /\ sm_frame' = [pc |-> r.pc, failed |-> r.exc, put |-> 0]
            /\ errors' = IF r.put
                         THEN Append(errors,
                                     bootstrap_error(instance_map[saltmaster_idx]))
                         ELSE errors
    /\ UNCHANGED <<config_vars, pipe_vars, cache_vars, log_vars, file_vars, pc, phase_log, cached_instance_map, instance_map,
                   exec_vars, main_wake, check_results, main_time_start, raised,
                   now>>

\* The next Queue.put of the saltmaster's _bootstrap (l.321-324).
bootstrap_saltmaster_put ==
    /\ pc = "bootstrap_saltmaster"
    /\ sm_frame.pc = "put"
    /\ LET puts == export_puts(run_files_to_scp(instance_map[saltmaster_idx]),
                               run_cmds_to_run(instance_map[saltmaster_idx],
                                               platform_salt_tarball,
                                               platform_certs_tarball))
           n == sm_frame.put + 1
       IN  /\ export_q' = export_put(export_q, puts[n])
           /\ sm_frame' = [sm_frame EXCEPT !.put = n,
                                           !.pc = after_put(n, puts)]
    /\ UNCHANGED <<config_vars, job, node, tarball_vars, cache_vars, remote, log_vars, file_vars, pc, phase_log, cached_instance_map, instance_map,
                   exec_vars, errors, main_wake, check_results, main_time_start,
                   raised, now>>

\* self._process_thread_errors('bootstrapping saltmaster', bootstrap_errors)
process_saltmaster_errors ==
    /\ pc = "bootstrap_saltmaster"
    /\ sm_frame.pc = "return"
    /\ LET r == process_thread_errors("bootstrapping saltmaster", errors)
       IN  IF r.raise
           THEN errors' = r.q /\ Raise(r.exc)
           ELSE errors' = errors /\ Goto("bootstrap_hosts") /\ raised' = raised
    /\ UNCHANGED <<config_vars, pipe_vars, cache_vars, remote, log_vars, file_vars, cached_instance_map, instance_map, exec_vars,
                   main_wake, check_results, sm_frame, main_time_start, now>>

\* The indexes of seq-elements satisfying keep, in order.
RECURSIVE SelectIdx(_, _)
SelectIdx(n, keep) ==
    IF n = 0 THEN <<>>
    ELSE IF keep[n] THEN Append(SelectIdx(n - 1, keep), n)
    ELSE SelectIdx(n - 1, keep)

\* _install_pnda: 'if '-' + salt-master-instance not in key'
install_selects(key) ==
    ~Contains(<<"-">> \o node_config.salt_master_instance, key)

\* Selecting every instance with a role, bootstrapped or not.
expand_selects_any_status(instance) ==
    instance.node_type # ""

\* _expand_pnda: 'len(instance['node_type']) > 0 and not instance['bootstrapped']'
expand_selects(instance) ==
    instance.node_type # "" /\ ~instance.bootstrapped

\* bootstrap_threads of the running method, in the map's iteration order.
bootstrap_threads(c, map) ==
    LET keep == [j \in 1..Len(map) |->
                    IF c = "create" THEN install_selects(map[j].key)
                    ELSE expand_selects(map[j])]
        idx == SelectIdx(Len(map), keep)
    IN  [k \in 1..Len(idx) |-> Thread("_bootstrap", idx[k])]

\* The thread-building loop and the call
\* _wait_on_host_operations('bootstrapping host', bootstrap_threads, ...);
\* expand creates its bootstrap_errors Queue here.
bootstrap_hosts ==
    /\ pc = "bootstrap_hosts"
    /\ epc = "idle"
    /\ errors' = IF cmd = "expand" THEN <<>> ELSE errors
    /\ wait_on_host_operations_call("bootstrapping host",
           bootstrap_threads(cmd, instance_map), bastion_ip # <<>>, TRUE)
    /\ UNCHANGED <<config_vars, pipe_vars, cache_vars, remote, file_vars, pc, phase_log, cached_instance_map, instance_map,
                   check_results, sm_frame, main_time_start, raised>>

\* 'map(tar.add, files)' over list(set(bootstrap_files.queue)): tar.add
\* raises OSError for a file that is not there.
tar_add(q_files, existing) ==
    \A file \in BagToSet(q_files) : isfile(file, existing)

\* _export_bootstrap_resources(cluster, list(set(bootstrap_files.queue)),
\* list(set(bootstrap_commands.queue))) (create only).
export_bootstrap_resources ==
    /\ pc = "export_bootstrap_resources"
    /\ IF tar_add(export_q.files, files)
       THEN Goto("settle") /\ raised' = raised
       ELSE Raise(plain_exception("OSError", "No such file or directory",
                                  <<>>, ""))
    /\ UNCHANGED <<config_vars, pipe_vars, cache_vars, remote, log_vars, file_vars, cached_instance_map, instance_map, exec_vars,
                   errors, main_wake, check_results, sm_frame, main_time_start,
                   now>>

\* time.sleep(30)
settle ==
    /\ pc = "settle"
    /\ Goto("run_salt")
    /\ UNCHANGED <<config_vars, pipe_vars, cache_vars, remote, log_vars, file_vars, cached_instance_map, instance_map, exec_vars,
                   errors, main_wake, check_results, sm_frame, main_time_start,
                   raised, now>>

\* A salt run that is issued again when it fails.
run_salt_retries ==
    /\ pc = "run_salt"
    /\ remote' = TRUE
    /\ \E ok \in BOOLEAN :
          IF ok THEN Goto("post_hook") ELSE Goto("run_salt")
    /\ UNCHANGED <<config_vars, pipe_vars, cache_vars, log_vars, file_vars,
                   cached_instance_map, instance_map, exec_vars, errors,
                   main_wake, check_results, sm_frame, main_time_start, raised,
                   now>>

\* ssh([... highstate / orchestrate ...], cluster, saltmaster_ip): raises on
\* a nonzero exit, else the method returns.
run_salt ==
    /\ pc = "run_salt"
    /\ remote' = TRUE
    /\ \E ok \in BOOLEAN :
          IF ok THEN Goto("post_hook") /\ raised' = raised
          ELSE Raise(ssh_error(saltmaster_ip))
    /\ UNCHANGED <<config_vars, pipe_vars, cache_vars, log_vars, file_vars, cached_instance_map, instance_map, exec_vars,
                   errors, main_wake, check_results, sm_frame, main_time_start,
                   now>>

\* post_install_pnda / post_expand_pnda, then
\* 'instance_map = self.get_instance_map()' and the return of the console's
\* private_ip_address.
post_hook ==
    /\ pc = "post_hook"
    /\ get_instance_map_call(FALSE, "done")

\* -- destroy
\* A destroy that leaves the socks proxy script behind.
destroy_removes_config_only ==
    <<"ssh_config", "pnda_env_sh">>

\* The files _destroy_pnda removes when they exist, in the order of the code.
destroy_removes ==
    <<"socks_proxy", "ssh_config", "pnda_env_sh">>

\* The phase_log entries of the os.remove calls made for the files of seq
\* that exist.
RECURSIVE removals(_, _)
removals(seq, existing) ==
    IF Len(seq) = 0 THEN <<>>
    ELSE (IF Head(seq) \in existing THEN <<"remove_" \o Head(seq)>> ELSE <<>>)
         \o removals(Tail(seq), existing)

\* destroy(): pre_destroy_pnda, _destroy_pnda, post_destroy_pnda.
destroy ==
    /\ pc = "destroy"
    /\ files' = files \ {destroy_removes[k] : k \in 1..Len(destroy_removes)}
    /\ pc' = "done"
    /\ phase_log' = phase_log \o removals(destroy_removes, files) \o <<"done">>
    /\ UNCHANGED <<config_vars, pipe_vars, cache_vars, remote, log_vars, runfile, writes,
                   cached_instance_map, instance_map, exec_vars, errors,
                   main_wake, check_results, sm_frame, main_time_start, raised,
                   now>>

\* ------------------------------------------------------------------ Next
Next ==
    \/ check_config
    \/ pre_hook
    \/ get_instance_map
    \/ check_hosts_bootstrapped_drain
    \/ write_ssh_config
    \/ wait_bastion
    \/ wait_bastion_sleep
    \/ wait_for_host_connectivity
    \/ stage_salt
    \/ ship_certs
    \/ bootstrap_saltmaster
    \/ bootstrap_saltmaster_put
    \/ process_saltmaster_errors
    \/ bootstrap_hosts
    \/ export_bootstrap_resources
    \/ settle
    \/ run_salt
    \/ post_hook
    \/ destroy
    \/ wait_on_host_operations_start
    \/ wait_on_host_operations_sleep
    \/ wait_on_host_operations_join
    \/ wait_on_host_operations_return
    \/ \E i \in 1..MaxHosts : do_wait_time_start(i)
    \/ \E i \in 1..MaxHosts : do_wait_ssh_ok(i)
    \/ \E i \in 1..MaxHosts : do_wait_ssh_fail(i)
    \/ \E i \in 1..MaxHosts : do_wait_sleep(i)
    \/ \E i \in 1..MaxHosts : bootstrap_thread(i)
    \/ \E i \in 1..MaxHosts : bootstrap_thread_put(i)
    \/ \E i \in 1..MaxHosts : do_check(i)
    \/ Tick
    \/ TickLate

Spec == Init /\ [][Next]_vars

\* --------------------------------------- _wait_on_host_operations alone
\* The target of a Thread handed to _wait_on_host_operations by any caller:
\* it returns, having put an error on the queue or not.
op_error(i) ==
    [text |-> "operation failed", host |-> <<"op", DigitToken[i]>>]

op_run(i) ==
    /\ Running(i, "op")
    /\ \E ok \in BOOLEAN :
          /\ thread_list' = [thread_list EXCEPT ![i].st = "done",
                                                ![i].pc = "return",
                                                ![i].succ = IF ok THEN 1 ELSE 0,
                                                ![i].failed = ~ok]
          /\ errors' = IF ok THEN errors ELSE Append(errors, op_error(i))
    /\ UNCHANGED <<config_vars, pipe_vars, cache_vars, remote, log_vars, file_vars, pc,
                   phase_log, cached_instance_map, instance_map, action,
                   bastion_used, errors_given, epc, set_idx, pos, main_wake,
                   check_results, sm_frame, main_time_start, raised, now>>

\* A call _wait_on_host_operations(action, thread_list, bastion_used, errors)
\* with M new threads, 0 <= M <= MaxOps, and an empty queue.
InitExec ==
    /\ cmd = "executor"
    /\ cluster \in Clusters
    /\ thread_set_size \in 1..MaxW
    /\ provisioned = <<>>
    /\ pc = "executor"
    /\ phase_log = <<>>
    /\ files = {}
    /\ InitRest
    /\ InitPipe

executor_call ==
    /\ pc = "executor"
    /\ epc = "idle"
    /\ action = ""
    /\ \E M \in 0..MaxOps, bastion \in BOOLEAN :
          wait_on_host_operations_call("running operations",
              [j \in 1..M |-> Thread("op", j)], bastion, TRUE)
    /\ UNCHANGED <<config_vars, pipe_vars, cache_vars, remote, file_vars, pc, phase_log,
                   cached_instance_map, instance_map, errors, check_results,
                   sm_frame, main_time_start, raised>>

NextExec ==
    \/ executor_call
    \/ wait_on_host_operations_start
    \/ wait_on_host_operations_sleep
    \/ wait_on_host_operations_join
    \/ wait_on_host_operations_return
    \/ \E i \in 1..MaxOps : op_run(i)
    \/ Tick
    \/ TickLate

SpecExec == InitExec /\ [][NextExec]_vars

\* The same call when the main thread is scheduled, every operation that
\* was started ends, and time passes: each of these steps is taken when it
\* stays possible.
ExecFairness ==
    /\ WF_vars(executor_call)
    /\ WF_vars(wait_on_host_operations_start)
    /\ WF_vars(wait_on_host_operations_sleep)
    /\ WF_vars(wait_on_host_operations_join)
    /\ WF_vars(wait_on_host_operations_return)
    /\ \A i \in 1..MaxOps : WF_vars(op_run(i))
    /\ WF_vars(Tick)
    /\ WF_vars(TickLate)

SpecExecLive == InitExec /\ [][NextExec]_vars /\ ExecFairness

\* ------------------------------------------------------ to_runfile alone
\* A run in which to_runfile is called from anywhere in the code, any number
\* of times up to MaxWrites, and init_runfile again after its first call; an
\* exception to_runfile raises ends the run.
InitRunfile ==
    /\ cmd = "runfile"
    /\ cluster \in Clusters
    /\ thread_set_size = 1
    /\ provisioned = <<>>
    /\ pc = "runfile"
    /\ phase_log = <<>>
    /\ files = {}
    /\ InitRest
    /\ InitPipe

to_runfile_call ==
    /\ pc = "runfile"
    /\ Len(writes) < MaxWrites
    /\ \E pairs \in PairChoices :
          LET r == to_runfile(runfile, pairs)
          IN  /\ runfile' = r.file
              /\ writes' = Append(writes, [file |-> runfile.name,
                                           pairs |-> pairs,
                                           raised |-> r.raised])
              /\ IF r.raised
                 THEN Raise(runfile_error)
                 ELSE UNCHANGED <<pc, phase_log, raised>>
    /\ UNCHANGED <<config_vars, pipe_vars, cache_vars, remote, log_vars, files,
                   cached_instance_map, instance_map, exec_vars, errors,
                   main_wake, check_results, sm_frame, main_time_start, now>>

\* utils.init_runfile(cluster) called again: within the second of the call
\* before it RUNFILE gets the same name, later it gets a new one, under which
\* no file exists yet.
init_runfile_call ==
    /\ pc = "runfile"
    /\ \E later \in BOOLEAN :
          /\ later => runfile.name < MaxInits
          /\ runfile' = IF later THEN init_runfile(runfile.name + 1) ELSE runfile
    /\ UNCHANGED <<config_vars, pipe_vars, cache_vars, remote, log_vars, writes,
                   files, pc, phase_log, raised,
                   cached_instance_map, instance_map, exec_vars, errors,
                   main_wake, check_results, sm_frame, main_time_start, now>>

NextRunfile ==
    \/ to_runfile_call
    \/ init_runfile_call

SpecRunfile == InitRunfile /\ [][NextRunfile]_vars

\* ------------------------------------------- the instance map cache alone
\* The maps a provisioner can return: those above and the empty map of a
\* cluster without instances.
AnyInstanceMap(c) == fill_instance_map(c) \cup {<<>>}

\* A user of the backend object calling get_instance_map and
\* clear_instance_map_cache in any order.
InitCache ==
    /\ cmd = "api"
    /\ cluster \in Clusters
    /\ thread_set_size \in 1..MaxW
    /\ provisioned \in AnyInstanceMap(cluster)
    /\ pc = "api"
    /\ phase_log = <<>>
    /\ files = {}
    /\ InitRest
    /\ InitPipe

NextCache ==
    \/ api_get_instance_map
    \/ clear_instance_map_cache
    \/ check_hosts_bootstrapped_drain
    \/ wait_on_host_operations_start
    \/ wait_on_host_operations_sleep
    \/ wait_on_host_operations_join
    \/ wait_on_host_operations_return
    \/ \E i \in 1..MaxHosts : do_check(i)
    \/ Tick
    \/ TickLate

SpecCache == InitCache /\ [][NextCache]_vars

\* --------------------------------------------------- _bootstrap in detail
\* One _bootstrap call looked at command by command: what it builds, what it
\* transfers, and what the shell on the host does with the commands.

\* Exit codes of a command on the host: success and one failure.
ExitCodes == {0, 1}

\* The check looking at the exit code of tee, the last command of the
\* pipeline.
THROW_BASH_ERROR_of_tee(PIPESTATUS) == PIPESTATUS[2]

\* cmd_result=${PIPESTATUS[0]} && if [ ${cmd_result} != '0' ]; then exit
\* ${cmd_result}; fi: the code the shell exits with, or 0 when it goes on.
\* PIPESTATUS[0] of the shell is the first element here.
THROW_BASH_ERROR(PIPESTATUS) == PIPESTATUS[1]

\* The shell on the host after running command c of the ';'-joined list,
\* c having exited with code e (for a "script": the script with e and tee
\* with code t).
shell_step(n, c, e, t) ==
    LET thrown == THROW_BASH_ERROR(<<e, t>>)
    IN  [received |-> n.received,
         executed |-> n.executed + 1,
         scripts  |-> IF c.kind = "script"
                      THEN Append(n.scripts, [name |-> c.name, code |-> e])
                      ELSE n.scripts,
         status   |-> IF c.kind = "script" THEN thrown ELSE e,
         exited   |-> c.kind = "script" /\ thrown # 0,
         sentinel |-> n.sentinel \/ (c.kind = "touch" /\ e = 0)]

\* subprocess_to_log.call(parts, FILE_LOGGER, host, scan_for_errors): the
\* exit code of the ssh process, which is that of the shell on the host or
\* 255 when the connection was lost, made nonzero when the output matched
\* one of the error patterns.
subprocess_to_log_call(status, lost, scan_hit) ==
    IF lost THEN 255 ELSE IF scan_hit /\ status = 0 THEN 1 ELSE status

\* The requested_volumes _get_volume_info can give: it raises (no config
\* file, no entry for the node type), or returns None or a dictionary with
\* any of the keys 'partitions' and 'volumes'.
VolumeInfos ==
    {[tag |-> "raises", keys |-> {}], [tag |-> "None", keys |-> {}]}
    \cup {[tag |-> "dict", keys |-> K] : K \in SUBSET {"partitions", "volumes"}}

\* The instances _bootstrap is called for: without node type, the
\* saltmaster, and another node type with or without the is_saltmaster key.
PipeInstances ==
    {[name |-> <<nt>>, node_type |-> nt, node_idx |-> idx,
      is_saltmaster |-> sm, private_ip_address |-> <<"10.0.0", "1">>] :
        nt \in {"", "saltmaster", "kafka"}, idx \in {<<>>, <<"1">>},
        sm \in BOOLEAN}

\* salt_tarball and certs_tarball as the callers pass them: each None or
\* the name of a tarball (expand passes None for both, create the salt
\* tarball when PLATFORM_SALT_LOCAL is set and, to the saltmaster, the
\* certificate tarball when _ship_certs returned one).
TarballChoices ==
    {<<>>, salt_tarball_name} \X {<<>>, certs_tarball_name}

\* One _bootstrap call on a backend object, in any of the working
\* directories of WorkDirs; requested_volumes is what _get_volume_info gives
\* there: it raises when the volume config is not a file.
InitBootstrap ==
    /\ cmd = "bootstrap"
    /\ cluster \in Clusters
    /\ thread_set_size = 1
    /\ provisioned = <<>>
    /\ pc = "bootstrap"
    /\ phase_log = <<>>
    /\ InitRest
    /\ \E instance \in PipeInstances, tarballs \in TarballChoices,
          requested_volumes \in VolumeInfos, collect \in BOOLEAN :
          /\ files \in WorkDirs(instance.node_type)
          /\ ~isfile(volume_config_file, files) =>
                requested_volumes.tag = "raises"
          /\ job = [pc |-> "entry", instance |-> instance,
                    saltmaster |-> <<"10.0.0", "9">>,
                    flavor |-> <<"standard">>,
                    branch |-> <<"master">>, salt_tarball |-> tarballs[1],
                    certs_tarball |-> tarballs[2],
                    requested_volumes |-> requested_volumes,
                    collect |-> collect, put |-> 0,
                    files_to_scp |-> <<>>, cmds_to_run |-> <<>>]
    /\ node = NoHost
    /\ export_q = NoExport
    /\ platform_salt_tarball = <<>>
    /\ platform_certs_tarball = <<>>

InBootstrap(p) == pc = "bootstrap" /\ job.pc = p

\* _bootstrap from its entry to the scp call: the return for an instance
\* without node type, else the two lists; an exception goes to the queue.
bootstrap_entry ==
    /\ InBootstrap("entry")
    /\ LET r == bootstrap_step("entry", job.instance,
                               job.requested_volumes.tag # "raises",
                               job.collect)
       IN  /\ job' = [job EXCEPT
                        !.pc = r.pc,
                        !.files_to_scp =
                            IF r.pc = "scp"
                            THEN files_to_scp(job.instance, files)
                            ELSE <<>>,
                        !.cmds_to_run =
                            IF r.pc = "scp"
                            THEN cmds_to_run(job.instance, job.saltmaster,
                                             cluster, job.flavor, job.branch,
                                             job.salt_tarball,
                                             job.certs_tarball,
                                             job.requested_volumes)
                            ELSE <<>>]
           /\ errors' = IF r.put
                        THEN Append(errors, bootstrap_error(job.instance))
                        ELSE errors
    /\ UNCHANGED <<config_vars, cache_vars, remote, log_vars, file_vars, pc,
                   phase_log, cached_instance_map, instance_map, exec_vars,
                   main_wake, check_results, sm_frame, main_time_start, raised,
                   now, node, export_q, tarball_vars>>

\* The basenames in /tmp on the host after scp went through the first k of
\* scp_files: a file that is not there is skipped and the next one copied.
scp_received(scp_files, k, existing) ==
    {scp_files[j].name : j \in {i \in 1..k : isfile(scp_files[i], existing)}}

\* scp exits with 0: it went through every file and none was missing.
scp_complete(scp_files, k, existing) ==
    /\ k = Len(scp_files)
    /\ \A j \in 1..Len(scp_files) : isfile(scp_files[j], existing)

\* scp(files_to_scp, cluster, ip_address): scp copies the files in the
\* order of the list, up to the end or up to the loss of the connection.
\* ret_val is 0 only when every file arrived; on a nonzero ret_val
\* utils.scp raises, with the files copied so far left on the host.
bootstrap_scp ==
    /\ InBootstrap("scp")
    /\ remote' = TRUE
    /\ \E k \in 0..Len(job.files_to_scp), ok \in BOOLEAN :
          /\ ok => scp_complete(job.files_to_scp, k, files)
          /\ LET r == bootstrap_step("scp", job.instance, ok, job.collect)
             IN  /\ job' = [job EXCEPT !.pc = r.pc]
                 /\ node' = [node EXCEPT
                               !.received =
                                   scp_received(job.files_to_scp, k, files)]
                 /\ errors' = IF r.put
                              THEN Append(errors, bootstrap_error(job.instance))
                              ELSE errors
    /\ UNCHANGED <<config_vars, cache_vars, log_vars, file_vars, pc,
                   phase_log, cached_instance_map, instance_map, exec_vars,
                   main_wake, check_results, sm_frame, main_time_start, raised,
                   now, export_q, tarball_vars>>

\* The shell started by ssh(cmds_to_run, cluster, ip_address) runs the next
\* command of ';'.join(cmds).
remote_command ==
    /\ InBootstrap("ssh")
    /\ ~node.exited
    /\ node.executed < Len(job.cmds_to_run)
    /\ remote' = TRUE
    /\ \E e \in ExitCodes, t \in ExitCodes :
          /\ job.cmds_to_run[node.executed + 1].kind # "script" => t = 0
          /\ node' = shell_step(node, job.cmds_to_run[node.executed + 1], e, t)
    /\ UNCHANGED <<config_vars, cache_vars, log_vars, file_vars, pc,
                   phase_log, cached_instance_map, instance_map, exec_vars,
                   errors, main_wake, check_results, sm_frame, main_time_start,
                   raised, now, job, export_q, tarball_vars>>

\* ssh returns: the shell ended (after the last command or by an exit) or
\* the connection was lost; utils.ssh raises on a nonzero ret_val, else
\* _bootstrap goes on to put the two lists on the export Queues when it was
\* given them.
bootstrap_ssh ==
    /\ InBootstrap("ssh")
    /\ remote' = TRUE
    /\ \E lost \in BOOLEAN, scan_hit \in BOOLEAN :
          /\ lost \/ node.exited \/ node.executed = Len(job.cmds_to_run)
          /\ LET ret_val == subprocess_to_log_call(node.status, lost, scan_hit)
                 r == bootstrap_step("ssh", job.instance, ret_val = 0,
                                     job.collect)
             IN  /\ job' = [job EXCEPT !.pc = r.pc]
                 /\ errors' = IF r.put
                              THEN Append(errors, bootstrap_error(job.instance))
                              ELSE errors
    /\ UNCHANGED <<config_vars, cache_vars, log_vars, file_vars, pc,
                   phase_log, cached_instance_map, instance_map, exec_vars,
                   main_wake, check_results, sm_frame, main_time_start, raised,
                   now, node, export_q, tarball_vars>>

\* The next Queue.put of the call (l.321-324), then its return.
bootstrap_put ==
    /\ InBootstrap("put")
    /\ LET puts == export_puts(job.files_to_scp, job.cmds_to_run)
           n == job.put + 1
       IN  /\ export_q' = export_put(export_q, puts[n])
           /\ job' = [job EXCEPT !.put = n, !.pc = after_put(n, puts)]
    /\ UNCHANGED <<config_vars, cache_vars, remote, log_vars, file_vars, pc,
                   phase_log, cached_instance_map, instance_map, exec_vars,
                   errors, main_wake, check_results, sm_frame, main_time_start,
                   raised, now, node, tarball_vars>>

NextBootstrap ==
    \/ bootstrap_entry
    \/ bootstrap_scp
    \/ remote_command
    \/ bootstrap_ssh
    \/ bootstrap_put

SpecBootstrap == InitBootstrap /\ [][NextBootstrap]_vars

\* ------------------------------------------------ runs under any cluster name
\* Cluster names a user can give: a plain one, and one that has the text
\* '-saltmaster' in it.
ClusterNames == Clusters \cup {<<"lab", "-", "saltmaster">>}

\* A run of create, expand or destroy as in Init, for any of these names.
InitNames ==
    /\ cmd \in {"create", "expand", "destroy"}
    /\ cluster \in ClusterNames
    /\ IF cmd = "destroy"
       THEN /\ thread_set_size = 1
            /\ provisioned = <<>>
            /\ pc = "destroy"
            /\ phase_log = <<"destroy">>
            /\ files \in SUBSET LocalFiles
       ELSE /\ thread_set_size \in 1..MaxW
            /\ provisioned \in fill_instance_map(cluster)
            /\ pc = "check_config"
            /\ phase_log = <<"check_config">>
            /\ files \in RunFiles
    /\ InitRest
    /\ InitPipe

SpecNames == InitNames /\ [][Next]_vars

\* ------------------------------------- _wait_for_host_connectivity alone
\* The connectivity phase of a run over an instance map of up to MaxPoll
\* hosts, with the main thread scheduled, every probe returning, every
\* thread scheduled and time passing.
InitPoll ==
    /\ cmd = "poll"
    /\ cluster \in Clusters
    /\ thread_set_size \in 1..MaxW
    /\ provisioned \in {m \in fill_instance_map(cluster) : Len(m) <= MaxPoll}
    /\ pc = "poll"
    /\ phase_log = <<>>
    /\ files = {}
    /\ InitRest
    /\ InitPipe

\* The caller has its instance_map and comes to the call
\* _wait_for_host_connectivity([... for h in instance_map], ...).
poll_call ==
    /\ pc = "poll"
    /\ instance_map' = provisioned
    /\ Goto("wait_for_host_connectivity")
    /\ UNCHANGED <<config_vars, pipe_vars, cache_vars, remote, log_vars,
                   file_vars, cached_instance_map, exec_vars, errors,
                   main_wake, check_results, sm_frame, main_time_start, raised,
                   now>>

NextPoll ==
    \/ poll_call
    \/ wait_for_host_connectivity
    \/ wait_on_host_operations_start
    \/ wait_on_host_operations_sleep
    \/ wait_on_host_operations_join
    \/ wait_on_host_operations_return
    \/ \E i \in 1..MaxPoll :
          \/ do_wait_time_start(i)
          \/ do_wait_ssh_ok(i)
          \/ do_wait_ssh_fail(i)
          \/ do_wait_sleep(i)
    \/ Tick
    \/ TickLate

PollFairness ==
    /\ WF_vars(poll_call)
    /\ WF_vars(wait_for_host_connectivity)
    /\ WF_vars(wait_on_host_operations_start)
    /\ WF_vars(wait_on_host_operations_sleep)
    /\ WF_vars(wait_on_host_operations_join)
    /\ WF_vars(wait_on_host_operations_return)
    /\ \A i \in 1..MaxPoll :
          /\ WF_vars(do_wait_time_start(i))
          /\ WF_vars(do_wait_ssh_ok(i) \/ do_wait_ssh_fail(i))
          /\ WF_vars(do_wait_sleep(i))
    /\ WF_vars(Tick)
    /\ WF_vars(TickLate)

SpecPoll == InitPoll /\ [][NextPoll]_vars /\ PollFairness

\* ================================================================ claims
InExecutor == epc # "idle"

\* The set (wave) of _wait_on_host_operations that thread i belongs to.
WaveOf(i) ==
    CHOOSE k \in 1..Len(ThreadSets) :
        \E p \in 1..Len(ThreadSets[k]) : ThreadSets[k][p] = i

StartedUnfinished ==
    {i \in 1..Len(thread_list) : thread_list[i].st = "running"}

\* C1: inside _wait_on_host_operations the number of operations that have
\* been started and have not yet finished never exceeds the wave size
\* MAX_SIMULTANEOUS_OUTBOUND_CONNECTIONS, with or without the bastion stagger.
C1_AtMostWConcurrent ==
    Cardinality(StartedUnfinished) <= thread_set_size

\* C1 witness: a full wave of at least two operations is running at once.
C1_Witness ==
    /\ InExecutor
    /\ thread_set_size >= 2
    /\ Cardinality(StartedUnfinished) = thread_set_size
    /\ Len(thread_list) > thread_set_size

\* C2: no operation of a later wave has been started unless every operation
\* of each earlier wave has finished and has been joined.
C2_WavesSequential ==
    \A i, j \in 1..Len(thread_list) :
        (WaveOf(i) < WaveOf(j) /\ thread_list[j].st # "new")
            => (thread_list[i].st = "done" /\ thread_list[i].joined)

\* C2 witness: an operation of the second wave runs after the first wave of
\* two operations was joined.
C2_Witness ==
    /\ InExecutor
    /\ \E j \in 1..Len(thread_list) :
          /\ WaveOf(j) = 2
          /\ thread_list[j].st = "running"
          /\ thread_list[1].joined
          /\ thread_list[2].joined

InLog(p) ==
    \E k \in 1..Len(phase_log) : phase_log[k] = p

AllJoined ==
    \A i \in 1..Len(thread_list) :
        thread_list[i].st = "done" /\ thread_list[i].joined

\* The number of records in the error collector that name host h.
ErrorsNaming(h) ==
    Cardinality({k \in 1..Len(errors) : errors[k].host = h})

C3_State ==
    (cmd = "create" /\ sm_frame.failed) =>
        /\ pc \in {"bootstrap_saltmaster", "raised"}
        /\ pc = "bootstrap_saltmaster" => Len(errors) >= 1
        /\ pc = "raised" =>
              /\ Len(raised) = 1
              /\ raised[1].action = "bootstrapping saltmaster"
              /\ raised[1].error_message.host = node_config.salt_master_instance
        /\ ~InLog("bootstrap_hosts")
        /\ ~InLog("export_bootstrap_resources")
        /\ ~InLog("run_salt")
        /\ \A i \in 1..Len(thread_list) :
              thread_list[i].kind = "_bootstrap" => thread_list[i].st = "new"

C3_Step ==
    (cmd = "create" /\ sm_frame.failed /\ pc = "bootstrap_saltmaster")
        => pc' = "raised"

\* C3: in create, once the saltmaster's own _bootstrap has failed, no other
\* host's _bootstrap is started, the export and the salt run are never
\* reached, and the only step the controller takes raises the failure of
\* 'bootstrapping saltmaster'.
C3_CoordinatorFailureHalts ==
    [](C3_State) /\ [][C3_Step]_vars

\* C3 witness: create has raised after the saltmaster's pipeline failed.
C3_Witness ==
    /\ cmd = "create"
    /\ sm_frame.failed
    /\ pc = "raised"
    /\ Len(instance_map) >= 2

\* Thread i runs (or ran) the saltmaster's _bootstrap.
IsCoordinatorPipeline(i) ==
    /\ thread_list[i].kind = "_bootstrap"
    /\ thread_list[i].host = saltmaster_idx

\* C4 (as claimed): in create and in expand, whenever another host's
\* _bootstrap has been started, the saltmaster's _bootstrap, if it is invoked
\* in the run, has already returned.
C4_CoordinatorSerialized ==
    \A j \in 1..Len(thread_list) :
        (/\ thread_list[j].kind = "_bootstrap"
         /\ thread_list[j].host # saltmaster_idx
         /\ thread_list[j].st # "new")
            => /\ sm_frame.pc \in {"idle", "return"}
               /\ \A i \in 1..Len(thread_list) :
                     IsCoordinatorPipeline(i) => thread_list[i].st = "done"

BootstrapPhase ==
    InExecutor /\ action = "bootstrapping host"

C5_State ==
    BootstrapPhase =>
        /\ raised = <<>>
        /\ pc = "bootstrap_hosts"
        /\ \A i \in 1..Len(thread_list) :
              /\ thread_list[i].failed =>
                    /\ thread_list[i].st = "done"
                    /\ ErrorsNaming(InstanceOf(i).name) = 1
              /\ ~thread_list[i].failed => ErrorsNaming(InstanceOf(i).name) = 0
        /\ epc = "errors" => AllJoined

C5_Step ==
    (/\ BootstrapPhase
     /\ epc' = "idle"
     /\ \E i \in 1..Len(thread_list) : thread_list[i].failed)
        => /\ pc' = "raised"
           /\ Len(raised') = 1
           /\ raised'[1].action = "bootstrapping host"

\* C5: a _bootstrap thread whose pipeline fails leaves exactly one record
\* naming its instance in the error collector and ends without raising
\* anything; the executor still starts and joins every sibling, of the same
\* and of later waves, before its errors check; and that check then raises
\* the aggregate failure of 'bootstrapping host'.
C5_FailureIsolated ==
    [](C5_State) /\ [][C5_Step]_vars

\* C5 witness: at the errors check a pipeline of the first wave has failed
\* and a sibling of a later wave has completed.
C5_Witness ==
    /\ BootstrapPhase
    /\ epc = "errors"
    /\ \E i, j \in 1..Len(thread_list) :
          /\ WaveOf(i) < WaveOf(j)
          /\ thread_list[i].failed
          /\ thread_list[j].succ = 1
          /\ InstanceOf(j).node_type # ""

C6_State ==
    /\ Len(raised) <= 1
    /\ (InExecutor /\ Len(thread_list) = 0) => epc = "errors"

C6_Step ==
    /\ (InExecutor /\ epc' # "idle") => (raised' = raised /\ pc' = pc)
    /\ (InExecutor /\ epc' = "idle") =>
          /\ epc = "errors"
          /\ AllJoined
          /\ (pc' = "raised") <=> (errors_given /\ Len(errors) > 0)
          /\ (pc' = "raised") =>
                /\ raised' = <<[type |-> "Exception", action |-> action,
                                error_message |-> errors[1],
                                log |-> LOG_FILE_NAME]>>
          /\ (pc' # "raised") => raised' = raised

\* C6: _wait_on_host_operations raises exactly when its error collector is
\* non-empty at the errors check, which it reaches only after every thread
\* of every wave was joined; it raises once; with no thread to run it starts
\* nothing and goes straight to the errors check.
C6_RaisesOnlyAfterAllJoined ==
    [](C6_State) /\ [][C6_Step]_vars

\* C6 witness: the connectivity phase, run in more than one wave, has raised
\* its aggregate failure.
C6_Witness ==
    /\ pc = "raised"
    /\ action = "waiting for host connectivity"
    /\ Len(thread_list) > thread_set_size
    /\ Len(raised) = 1
    /\ raised[1].action = "waiting for host connectivity"

\* Thread i is a do_wait thread before and after the step.
WaitThreadStep(i) ==
    /\ i \in 1..Len(thread_list)
    /\ i \in 1..Len(thread_list')
    /\ thread_list[i].kind = "do_wait"
    /\ thread_list'[i].kind = "do_wait"
    /\ thread_list'[i].st # "new"

\* Thread i's do_wait gives up in the step.
GivesUpNow(i) ==
    /\ WaitThreadStep(i)
    /\ ~thread_list[i].failed
    /\ thread_list'[i].failed

C7_Step ==
    /\ (epc \in {"start", "sleep", "join"} /\ action = "waiting for host connectivity"
           /\ errors' # errors) =>
          \E j \in 1..MaxHosts : GivesUpNow(j)
    /\ \A i \in 1..MaxHosts :
        WaitThreadStep(i) =>
            /\ thread_list'[i].succ > thread_list[i].succ =>
                  /\ thread_list[i].succ = 0
                  /\ thread_list[i].pc = "ssh"
                  /\ thread_list'[i].st = "done"
            /\ thread_list[i].succ >= 1 =>
                  /\ thread_list'[i].succ = thread_list[i].succ
                  /\ thread_list'[i].pc = thread_list[i].pc
                  /\ thread_list'[i].st = "done"
                  /\ ~thread_list'[i].failed
            /\ GivesUpNow(i) =>
                  /\ now - thread_list[i].time_start > 10 * 60 * 1000
                  /\ thread_list[i].succ = 0
                  /\ thread_list[i].pc = "ssh"
                  /\ Len(errors') = Len(errors) + 1

\* C7: in _wait_for_host_connectivity a host's loop ends with its first
\* successful probe and the host is not probed again; a failure record is
\* appended for a host only by a failed probe of that host made more than ten
\* minutes after the host's own time_start, no probe of it having succeeded.
C7_PollerPerHostOutcome ==
    [][C7_Step]_vars

\* C7 witness: in one connectivity phase a host succeeded on a later probe
\* than its first and another host gave up after the limit.
C7_Witness ==
    /\ InExecutor
    /\ action = "waiting for host connectivity"
    /\ now > GIVE_UP_MS
    /\ \E i, j \in 1..Len(thread_list) :
          /\ thread_list[i].failed
          /\ thread_list[j].succ = 1

ConnectivityPhase ==
    epc # "idle" /\ action = "waiting for host connectivity"

C8_Step ==
    \A i \in 1..MaxHosts :
        GivesUpNow(i) =>
            /\ now - thread_list[i].time_start > GIVE_UP_MS
            /\ \A j \in 1..Len(thread_list) : j # i => thread_list'[j] = thread_list[j]
            /\ <<epc, set_idx, pos, pc>>' = <<epc, set_idx, pos, pc>>

C8_State ==
    ConnectivityPhase =>
        /\ \A i \in 1..Len(thread_list) :
              /\ ~(thread_list[i].succ >= 1 /\ thread_list[i].failed)
              /\ ErrorsNaming(InstanceOf(i).private_ip_address)
                    = (IF thread_list[i].failed THEN 1 ELSE 0)
        /\ epc = "errors" =>
              \A i \in 1..Len(thread_list) :
                  /\ thread_list[i].st = "done"
                  /\ thread_list[i].succ = 1 \/ thread_list[i].failed

\* C8: a host's give-up ends only that host's loop: it happens after that
\* host's own limit, changes no other thread and does not move the main
\* thread; the errors check is reached only when every host has ended, each
\* by its own success or its own give-up, and the collector names exactly the
\* hosts that gave up.
C8_PollerHostsIndependent ==
    [](C8_State) /\ [][C8_Step]_vars

\* C8 witness: of three poll targets one never responded and gave up, the
\* other two succeeded.
C8_Witness ==
    /\ ConnectivityPhase
    /\ epc = "errors"
    /\ Len(thread_list) = 3
    /\ Cardinality({i \in 1..3 : thread_list[i].failed}) = 1
    /\ Cardinality({i \in 1..3 : thread_list[i].succ = 1}) = 2

\* The _bootstrap threads created for the instance at position h.
PipelinesFor(h) ==
    {i \in 1..Len(thread_list) :
        thread_list[i].kind = "_bootstrap" /\ thread_list[i].host = h}

\* C9: in expand's bootstrap phase there is exactly one _bootstrap thread for
\* each instance with a non-empty node_type and bootstrapped = False and none
\* for any other instance; no thread is started twice, and when the executor
\* has joined the phase every one of them has been started once.
C9_ExpandBootstrapsNewOnly ==
    (cmd = "expand" /\ action = "bootstrapping host") =>
        /\ \A h \in 1..Len(instance_map) :
              Cardinality(PipelinesFor(h)) =
                  (IF Len(instance_map[h].node_type) > 0
                      /\ instance_map[h].bootstrapped = FALSE
                   THEN 1 ELSE 0)
        /\ \A i \in 1..Len(thread_list) :
              /\ thread_list[i].kind = "_bootstrap"
              /\ thread_list[i].starts <= 1
              /\ epc \in {"errors", "idle"} =>
                    thread_list[i].starts = 1 /\ thread_list[i].st = "done"

\* C9 witness: expand with the saltmaster bootstrapped and two new hosts:
\* only the two new hosts got a pipeline, and both have run.
C9_Witness ==
    /\ cmd = "expand"
    /\ action = "bootstrapping host"
    /\ epc = "errors"
    /\ Len(instance_map) = 3
    /\ instance_map[1].bootstrapped
    /\ Len(thread_list) = 2
    /\ thread_list[1].host = 2
    /\ thread_list[2].host = 3

\* C10: _check_hosts_bootstrapped never raises, and when it has returned an
\* instance has bootstrapped = True exactly if its sentinel probe succeeded;
\* every instance whose probe raised has bootstrapped = False.
C10_StatusFromProbe ==
    (cmd = "expand" /\ action = "checking bootstrap status") =>
        /\ raised = <<>>
        /\ pc \in {"check_hosts_bootstrapped", "mark_bootstrapped",
                   "write_ssh_config", "wait_for_host_connectivity"}
        /\ pc \in {"write_ssh_config", "wait_for_host_connectivity"} =>
              /\ Len(thread_list) = Len(instance_map)
              /\ \A j \in 1..Len(instance_map) :
                    /\ thread_list[j].host = j
                    /\ instance_map[j].bootstrapped <=> thread_list[j].succ = 1
                    /\ thread_list[j].failed => instance_map[j].bootstrapped = FALSE

\* C10 witness: after the check one instance is marked bootstrapped and the
\* probe of another raised.
C10_Witness ==
    /\ cmd = "expand"
    /\ action = "checking bootstrap status"
    /\ pc = "write_ssh_config"
    /\ \E j, k \in 1..Len(instance_map) :
          /\ instance_map[j].bootstrapped
          /\ thread_list[k].failed
          /\ ~instance_map[k].bootstrapped

\* No clear_instance_map_cache call lies between calls i and j.
NoClearBetween(i, j) ==
    \A k \in (i + 1)..(j - 1) : calls[k].op # "clear"

\* C11: between two invalidations every get_instance_map call that has
\* returned returned the identical object and fill_instance_map was invoked
\* at most once; the first get_instance_map call after a
\* clear_instance_map_cache invokes fill_instance_map again.
C11_CacheIdenticalUntilInvalidated ==
    /\ \A i, j \in 1..Len(calls) :
          (/\ i < j
           /\ calls[i].op = "get"
           /\ calls[j].op = "get"
           /\ NoClearBetween(i, j)) =>
              /\ ~calls[j].filled
              /\ calls[j].obj # 0 => calls[j].obj = calls[i].obj
    /\ \A j \in 2..Len(calls) :
          (calls[j].op = "get" /\ calls[j - 1].op = "clear") => calls[j].filled

\* The phases of create in the order of the code, with or without the wait
\* for the bastion.
CreateOrder(relay) ==
    <<"check_config", "pre_hook", "get_instance_map", "write_ssh_config">>
    \o (IF relay THEN <<"wait_bastion">> ELSE <<>>)
    \o <<"wait_for_host_connectivity", "stage_salt", "ship_certs",
         "bootstrap_saltmaster", "bootstrap_hosts",
         "export_bootstrap_resources", "settle", "run_salt", "post_hook",
         "done">>

\* phase_log without the entry of a run's end by an exception or an exit.
PhasesEntered ==
    IF Len(phase_log) > 0 /\ phase_log[Len(phase_log)] \in {"raised", "exited"}
    THEN SubSeq(phase_log, 1, Len(phase_log) - 1)
    ELSE phase_log

IsPrefix(a, b) ==
    /\ Len(a) <= Len(b)
    /\ \A k \in 1..Len(a) : a[k] = b[k]

\* C12: in create the phases entered are, in this order and each once:
\* config validation, topology resolution, access-config writing, the bastion
\* wait exactly when the topology holds a bastion, the connectivity wait,
\* staging on the saltmaster, the saltmaster's bootstrap, the bootstrap of the
\* other hosts, the export, the settle delay, the salt run; a parallel phase
\* is over (every thread done and joined) before the next phase is entered.
C12_CreatePhaseOrder ==
    cmd = "create" =>
        /\ IsPrefix(PhasesEntered, CreateOrder(HasKey(provisioned, bastion_name)))
        /\ pc \notin {"wait_for_host_connectivity", "bootstrap_hosts"} =>
              /\ epc = "idle"
              /\ \A i \in 1..Len(thread_list) :
                    thread_list[i].st = "done" /\ thread_list[i].joined
        /\ InLog("bootstrap_hosts") => sm_frame.pc = "return"

\* C12 witness: a create with a bastion has run every phase to the end.
C12_Witness ==
    /\ cmd = "create"
    /\ pc = "done"
    /\ InLog("wait_bastion")
    /\ Len(thread_list) = 2

\* The exception raised is the aggregate of _process_thread_errors.
AggregateRaised ==
    /\ Len(raised) > 0
    /\ raised[1].action # ""

C13_State ==
    Len(raised) > 0 =>
        /\ pc = "raised"
        /\ Len(raised) = 1
        /\ epc = "idle"
        /\ phase_log[Len(phase_log)] = "raised"

C13_Step ==
    /\ Len(raised) > 0 => UNCHANGED vars
    /\ (Len(raised) = 0 /\ Len(raised') > 0 /\ raised'[1].action # "") =>
          /\ pc' = "raised"
          /\ UNCHANGED <<thread_list, instance_map, cached_instance_map,
                         cached_obj, files, runfile, remote>>

\* C13: when _process_thread_errors raises the aggregate the run ends at
\* once: no thread is started and no controller phase is entered afterwards;
\* the raising step undoes nothing (the instance map, the cache, the local
\* files and the threads' outcomes stay as they are) and what the threads
\* already did on the hosts stands.
C13_AggregateHalts ==
    [](C13_State) /\ [][C13_Step]_vars

\* C13 witness: a bootstrap phase ended with the aggregate raised while a
\* sibling of the failed host had completed its pipeline.
C13_Witness ==
    /\ pc = "raised"
    /\ AggregateRaised
    /\ raised[1].action = "bootstrapping host"
    /\ \E i, j \in 1..Len(thread_list) :
          /\ thread_list[i].failed
          /\ thread_list[j].succ = 1
    /\ cached_instance_map # <<>>

\* The run ended by a configuration error: the exit of _check_config or a
\* PNDAConfigException.
ConfigErrorRaised ==
    \/ /\ pc = "exited"
       /\ phase_log[Len(phase_log) - 1] = "check_config"
    \/ /\ Len(raised) > 0
       /\ raised[1].type = "PNDAConfigException"

\* C14: in create and expand a configuration error (missing key file,
\* unreachable mirror, any PNDAConfigException) ends the run before any
\* connectivity probe, file transfer or remote command was issued.
C14_ConfigErrorBeforeRemote ==
    ConfigErrorRaised => ~remote

\* C15: the aggregate raised by _process_thread_errors is an Exception that
\* carries the action of the phase, the log file name and a message recorded
\* by a worker of that phase that failed: for the connectivity wait the
\* give-up message of a host whose polling failed, never the address of a host
\* whose probe succeeded; for a bootstrap the message for an instance whose
\* pipeline failed.
C15_AggregateContent ==
    AggregateRaised =>
        LET e == raised[1]
        IN  /\ e.type = "Exception"
            /\ e.log = "logs/pnda-cli.log"
            /\ e.action \in {"waiting for host connectivity",
                             "bootstrapping saltmaster", "bootstrapping host"}
            /\ e.action = "bootstrapping saltmaster" =>
                  /\ sm_frame.failed
                  /\ e.error_message.text = "Error for host"
                  /\ e.error_message.host = node_config.salt_master_instance
            /\ e.action # "bootstrapping saltmaster" =>
                  /\ e.action = action
                  /\ \E i \in 1..Len(thread_list) :
                        /\ thread_list[i].failed
                        /\ thread_list[i].succ = 0
                        /\ e.error_message.host =
                              (IF e.action = "bootstrapping host"
                               THEN InstanceOf(i).name
                               ELSE InstanceOf(i).private_ip_address)
                  /\ e.error_message.text =
                        (IF e.action = "bootstrapping host"
                         THEN "Error for host"
                         ELSE "Giving up waiting for connectivity to")
                  /\ \A j \in 1..Len(thread_list) :
                        thread_list[j].succ = 1 =>
                           /\ e.error_message.host # InstanceOf(j).private_ip_address
                           /\ e.error_message.host # InstanceOf(j).name

\* C15 witness: the connectivity wait raised its aggregate for one host that
\* gave up while two other hosts had answered.
C15_Witness ==
    /\ AggregateRaised
    /\ raised[1].action = "waiting for host connectivity"
    /\ Cardinality({i \in 1..Len(thread_list) : thread_list[i].succ = 1}) = 2
    /\ Cardinality({i \in 1..Len(thread_list) : thread_list[i].failed}) = 1

\* The step is a thread.start() of _wait_on_host_operations.
StartStep == Len(start_log') = Len(start_log) + 1

\* The step begins and ends inside one call of _wait_on_host_operations.
InsideCall == epc # "idle" /\ epc' # "idle"

C16_State ==
    (epc # "idle" /\ ~bastion_used) => (epc # "sleep" /\ main_wake = 0)

C16_Step ==
    /\ (StartStep /\ bastion_used) =>
          /\ epc' = "sleep"
          /\ main_wake' = now + 2 * 1000
          /\ Len(start_log) >= 1 => now >= main_wake
    /\ (StartStep /\ ~bastion_used) =>
          /\ epc' \in {"start", "join"}
          /\ now' = now
    /\ (InsideCall /\ ~StartStep) => main_wake' = main_wake
    /\ InsideCall => now' >= now

\* C16: with bastion_used set, every thread.start() is followed by a sleep
\* that ends 2 seconds after the start, nothing else moves that instant and
\* the clock never runs backwards, and the next start happens only at or
\* after it: two consecutive starts are at least 2 seconds apart.  With
\* bastion_used not set the main thread never sleeps between starts: a start
\* leads straight to the next start of the set or to the set's join.
C16_StaggerBetweenStarts ==
    [](C16_State) /\ [][C16_Step]_vars

\* C16 witness: behind a bastion three threads have been started, the third
\* one after the sleeps that followed the first two.
C16_Witness ==
    /\ cmd = "executor"
    /\ bastion_used
    /\ Len(start_log) = 3
    /\ epc = "sleep"
    /\ now >= 2 * (2 * 1000)
    /\ main_wake = now + 2 * 1000

\* C17: for M operations and wave size W the thread sets are ceil(M / W)
\* consecutive slices of the input list, each of W threads except possibly
\* the last; threads are started in input order; the join loop of each set is
\* completed once, set after set, and when the errors check is reached every
\* operation was started and every set joined.
C17_WavesAreSlices ==
    epc # "idle" =>
        LET M == Len(thread_list)
            W == thread_set_size
            n == Len(ThreadSets)
        IN  /\ n * W >= M
            /\ n > 0 => (n - 1) * W < M
            /\ \A k \in 1..n :
                  /\ Len(ThreadSets[k]) = (IF k < n THEN W ELSE M - (n - 1) * W)
                  /\ \A q \in 1..Len(ThreadSets[k]) :
                        ThreadSets[k][q] = (k - 1) * W + q
            /\ Len(start_log) <= M
            /\ \A k \in 1..Len(start_log) : start_log[k] = k
            /\ Len(join_log) <= n
            /\ \A k \in 1..Len(join_log) : join_log[k] = k
            /\ \A i \in 1..M : thread_list[i].starts = (IF i <= Len(start_log) THEN 1 ELSE 0)
            /\ epc = "errors" => (Len(start_log) = M /\ Len(join_log) = n)

\* C17 witness: 5 operations with wave size 2 and no bastion were run as the
\* waves [1,2], [3,4], [5] with three joins.
C17_Witness ==
    /\ cmd = "executor"
    /\ epc = "errors"
    /\ ~bastion_used
    /\ thread_set_size = 2
    /\ ThreadSets = <<<<1, 2>>, <<3, 4>>, <<5>>>>
    /\ start_log = <<1, 2, 3, 4, 5>>
    /\ join_log = <<1, 2, 3>>

\* The to_runfile calls of the run: those made on the file RUNFILE names.
IsRunWrite(w) == w.file = runfile.name
RunWrites == SelectSeq(writes, IsRunWrite)

\* The record that merging the first k to_runfile calls of the run gives.
RECURSIVE Merged(_)
Merged(k) ==
    IF k = 0 THEN [key \in RunKeys |-> ""]
    ELSE update(Merged(k - 1), RunWrites[k].pairs)

\* C18: after any sequence of to_runfile calls in one run (on the file one
\* init_runfile named) the file holds every key written so far with its most
\* recently written value, and no call after the first raises.
C18_RunfileMerges ==
    Len(RunWrites) > 0 =>
        /\ runfile.exists
        /\ runfile.data = Merged(Len(RunWrites))
        /\ \A k \in 2..Len(RunWrites) : ~RunWrites[k].raised

\* C19: destroy issues no probe, transfer or remote command and starts no
\* thread; when it has returned neither the ssh config nor the socks proxy
\* script of the cluster exists, whichever of them existed before, and it
\* returns without an exception when they are absent already.
C19_DestroyLocalOnly ==
    cmd = "destroy" =>
        /\ ~remote
        /\ thread_list = <<>>
        /\ Len(raised) = 0
        /\ pc \in {"destroy", "done"}
        /\ pc = "done" =>
              /\ "ssh_config" \notin files
              /\ "socks_proxy" \notin files

\* C19 witness: destroy has returned after removing both the ssh config and
\* the socks proxy script, which existed.
C19_Witness ==
    /\ cmd = "destroy"
    /\ pc = "done"
    /\ InLog("remove_ssh_config")
    /\ InLog("remove_socks_proxy")
    /\ ~InLog("remove_pnda_env_sh")

\* How many times the controller has come to the salt run.
SaltRuns ==
    Cardinality({k \in 1..Len(phase_log) : phase_log[k] = "run_salt"})

\* The exception raised is the one of the failed salt run.
ConvergenceFailed ==
    /\ Len(raised) > 0
    /\ raised[1].action = ""
    /\ raised[1].error_message.text = "Error running ssh commands"

\* Every bootstrap pipeline of the run has returned without an error.
PipelinesReturnedClean ==
    /\ epc = "idle"
    /\ action = "bootstrapping host"
    /\ Len(errors) = 0
    /\ \A i \in 1..Len(thread_list) :
          /\ thread_list[i].kind = "_bootstrap"
          /\ thread_list[i].st = "done"
          /\ thread_list[i].joined
          /\ ~thread_list[i].failed
    /\ cmd = "create" => (sm_frame.pc = "return" /\ ~sm_frame.failed)

C20_State ==
    /\ SaltRuns <= 1
    /\ pc = "run_salt" => PipelinesReturnedClean
    /\ ConvergenceFailed => (pc = "raised" /\ ~InLog("done") /\ SaltRuns = 1)
    /\ pc = "done" /\ cmd # "destroy" => (Len(raised) = 0 /\ SaltRuns = 1)

C20_Step ==
    pc = "run_salt" =>
        /\ pc' \in {"post_hook", "raised"}
        /\ pc' = "raised" <=> ConvergenceFailed'
        /\ UNCHANGED <<thread_list, errors>>

\* C20: in create and expand the salt run is issued at most once, and only
\* when every bootstrap pipeline scheduled in the run has returned and the
\* error queue is empty; when it fails the exception leaves the method at
\* once, it is not issued again, and the run never reaches its end.
C20_ConvergenceOnceAfterBootstrap ==
    [](C20_State) /\ [][C20_Step]_vars

\* C20 witness: the salt run of an expand failed after two pipelines had
\* returned clean, and the run ended with its exception.
C20_Witness ==
    /\ cmd = "expand"
    /\ ConvergenceFailed
    /\ pc = "raised"
    /\ Len(thread_list) = 2
    /\ \A i \in 1..2 : thread_list[i].kind = "_bootstrap" /\ thread_list[i].succ = 1

\* The positions in the built command list of the commands of one kind, and
\* of the script of one name.
KindPos(kinds) ==
    {k \in 1..Len(job.cmds_to_run) : job.cmds_to_run[k].kind \in kinds}

ScriptPos(name) ==
    {k \in KindPos({"script"}) : job.cmds_to_run[k].name = name}

PersistPos(name) ==
    {k \in KindPos({"persist"}) : job.cmds_to_run[k].name = name}

Before(A, B) == \A a \in A, b \in B : a < b

\* The instance holds the coordinating role.
Coordinating ==
    job.instance.node_type = "saltmaster" \/ job.instance.is_saltmaster

Built == job.pc # "none" /\ Len(job.cmds_to_run) > 0

C21_Order ==
    LET n    == Len(job.cmds_to_run)
        env  == KindPos({"source", "export", ":"})
        per  == KindPos({"persist"})
        base == ScriptPos("base")
        ext  == ScriptPos("saltmaster-common")
        role == {k \in ScriptPos(job.instance.node_type) :
                    job.cmds_to_run[k].arg = job.instance.node_idx}
    IN  /\ job.cmds_to_run[1].kind = "source"
        /\ Cardinality(base) = 1 /\ Cardinality(role) = 1
        /\ KindPos({"script"}) = base \cup ext \cup role
        /\ KindPos({"touch"}) = {n}
        /\ Before(env, per) /\ Before(env, base) /\ Before(per, base)
        /\ Before(base, ext) /\ Before(base, role) /\ Before(ext, role)
        /\ Before(role, {n})
        /\ Cardinality(PersistPos("partitions")) =
              (IF job.requested_volumes.tag = "dict"
                  /\ "partitions" \in job.requested_volumes.keys THEN 1 ELSE 0)
        /\ Cardinality(PersistPos("requested-volumes")) =
              (IF job.requested_volumes.tag = "dict"
                  /\ "volumes" \in job.requested_volumes.keys THEN 1 ELSE 0)
        /\ per = PersistPos("partitions") \cup PersistPos("requested-volumes")
        /\ Cardinality(ext) = (IF Coordinating THEN 1 ELSE 0)

\* C21: for an instance with a node type the command list _bootstrap builds
\* has the sourcing and the exports first, then the commands writing the
\* partitions and volumes lists (each there exactly when the list is
\* declared), then the base script, then the saltmaster-common script
\* (there exactly when the instance is the saltmaster), then the node type's
\* script with the node index as its argument, and the touch of the
\* completion file last; no command runs on the host before every file of
\* files_to_scp has arrived there.
C21_CommandOrder ==
    /\ job.pc \in {"scp", "ssh", "put"} => Built
    /\ (job.pc = "return" /\ job.instance.node_type # ""
        /\ job.requested_volumes.tag # "raises") => Built
    /\ Built => C21_Order
    /\ node.executed > 0 =>
          /\ Built
          /\ node.received =
                {job.files_to_scp[k].name : k \in 1..Len(job.files_to_scp)}
          /\ \A k \in KindPos({"script"}) :
                job.cmds_to_run[k].name \in node.received

\* C21 witness: on a saltmaster with both lists declared the whole command
\* list ran and the completion file was made.
C21_Witness ==
    /\ Built
    /\ Coordinating
    /\ job.requested_volumes.keys = {"partitions", "volumes"}
    /\ node.executed = Len(job.cmds_to_run)
    /\ Len(job.cmds_to_run) = 18
    /\ node.sentinel
    /\ "pnda_env_sh" \in files
    /\ "pnda_env" \in node.received

\* The scripts run on the host that exited with a nonzero code.
FailedScripts ==
    {j \in 1..Len(node.scripts) : node.scripts[j].code # 0}

C22_State ==
    /\ node.sentinel =>
          /\ Len(node.scripts) = Cardinality(KindPos({"script"}))
          /\ \A j \in 1..Len(node.scripts) :
                /\ node.scripts[j].code = 0
                /\ node.scripts[j].name =
                      job.cmds_to_run[CHOOSE k \in KindPos({"script"}) :
                          Cardinality({m \in KindPos({"script"}) : m <= k}) = j].name
    /\ \A j \in FailedScripts :
          /\ j = Len(node.scripts)
          /\ node.exited
          /\ ~node.sentinel
          /\ job.cmds_to_run[node.executed].kind = "script"
          /\ job.cmds_to_run[node.executed].name = node.scripts[j].name
          /\ export_q = NoExport
          /\ job.pc = "return" =>
                (Len(errors) = 1 /\ errors[1].host = job.instance.name)

C22_Step ==
    node.exited => node' = node

\* C22: touch ~/.bootstrap_complete runs on a host only after base.sh,
\* saltmaster-common.sh (when in the list) and the node type's script each
\* exited with 0; the first of them that exits nonzero ends the shell, so no
\* later command or script runs, and _bootstrap puts an error for the host
\* on the error queue.  The exit code of tee does not count.
C22_SentinelOnlyAfterSuccess ==
    [](C22_State) /\ [][C22_Step]_vars

\* C22 witness: on a saltmaster base.sh exited with 0 and
\* saltmaster-common.sh with 1; the shell ended there and _bootstrap
\* returned with the error recorded.
C22_Witness ==
    /\ Built
    /\ Len(node.scripts) = 2
    /\ node.scripts[1].code = 0
    /\ node.scripts[2].code = 1
    /\ node.exited
    /\ job.pc = "return"
    /\ Len(errors) = 1

\* The coordinating thread stands before a read of a collector: the errors
\* check of _wait_on_host_operations, the check after the saltmaster's
\* bootstrap, the drain of check_results, the read of the export Queues.
ReadPoint ==
    \/ epc = "errors"
    \/ pc = "bootstrap_saltmaster" /\ sm_frame.pc = "return"
    \/ pc = "mark_bootstrapped"
    \/ pc = "export_bootstrap_resources"

\* A thread that has been started and not yet ended.
Appenders ==
    {i \in 1..Len(thread_list) : thread_list[i].st = "running"}

\* The step is one of a running worker thread.
WorkerStep ==
    \E i \in Appenders : thread_list'[i] # thread_list[i]

C23_State ==
    ReadPoint => (Appenders = {} /\ AllJoined)

C23_Step ==
    /\ WorkerStep =>
          /\ IsPrefix(errors, errors')
          /\ IsPrefix(check_results, check_results')
    /\ ~IsPrefix(errors, errors') => (ReadPoint /\ AllJoined /\ ~WorkerStep)
    /\ ~IsPrefix(check_results, check_results') =>
          (ReadPoint /\ AllJoined /\ ~WorkerStep)
    /\ export_q.files \sqsubseteq export_q.files'
    /\ export_q.commands \sqsubseteq export_q.commands'

\* C23: the threads of a phase only put on the error queue, on
\* check_results and on the export Queues, they never take from them (nothing
\* is ever taken from the export Queues); a queue is read or emptied by
\* the main thread alone, and whenever the main thread stands before such a
\* read every thread of the phase has ended and been joined, so that no
\* thread that could still put is running.
C23_CollectorsReadAfterJoin ==
    [](C23_State) /\ [][C23_Step]_vars

\* C23 witness: the main thread stands before the errors check with two
\* threads joined, one of which had put an error.
C23_Witness ==
    /\ epc = "errors"
    /\ errors_given
    /\ Len(thread_list) >= 2
    /\ Len(errors) >= 1
    /\ AllJoined

\* Call j asked for the bootstrap status and has returned an object.
ReturnedWithCheck(j) ==
    /\ calls[j].op = "get"
    /\ calls[j].check
    /\ calls[j].obj # 0

\* The object call j returned was filled by a call that ran
\* _check_hosts_bootstrapped on it.
StatusApplied(j) ==
    \E i \in 1..j :
        /\ calls[i].op = "get"
        /\ calls[i].filled
        /\ calls[i].check
        /\ calls[i].obj = calls[j].obj

\* C24: every get_instance_map(check_bootstrapped=True) call returns a map
\* on which _check_hosts_bootstrapped has run since the cache was last
\* cleared, also when a get_instance_map() call without the flag filled the
\* cache before.
C24_CheckedWhenAsked ==
    \A j \in 1..Len(calls) : ReturnedWithCheck(j) => StatusApplied(j)

\* The bootstrap threads of create have been built.
CreateThreadsBuilt ==
    /\ cmd = "create"
    /\ action = "bootstrapping host"

\* The threads created for instance j of the instance map.
ThreadsFor(j) ==
    {i \in 1..Len(thread_list) :
        thread_list[i].kind = "_bootstrap" /\ thread_list[i].host = j}

\* C25: in a create whose saltmaster bootstrap succeeded, whatever the
\* cluster name and the instance keys, _bootstrap is invoked once for the
\* saltmaster (inline) and once for every other instance of the instance
\* map (one thread each, started once); no instance is left out and none
\* gets two invocations.
C25_EachInstanceOnce ==
    CreateThreadsBuilt =>
        /\ sm_frame.pc = "return" /\ ~sm_frame.failed
        /\ \A j \in 1..Len(instance_map) :
              Cardinality(ThreadsFor(j)) = (IF j = saltmaster_idx THEN 0 ELSE 1)
        /\ \A i \in 1..Len(thread_list) : thread_list[i].starts <= 1
        /\ pc = "export_bootstrap_resources" =>
              \A i \in 1..Len(thread_list) :
                  thread_list[i].starts = 1 /\ thread_list[i].st = "done"

\* _wait_on_host_operations has returned or raised.
ExecutorLeft == pc \in {"returned", "raised"}

\* C26: when every started operation ends, _wait_on_host_operations returns
\* or raises, and at that point each of the M threads has been started once
\* and joined, also when threads of earlier sets had put errors on the queue.
C26_ExecutorTerminates ==
    /\ <>ExecutorLeft
    /\ [](ExecutorLeft =>
            \A i \in 1..Len(thread_list) :
                /\ thread_list[i].starts = 1
                /\ thread_list[i].st = "done"
                /\ thread_list[i].joined)

\* C26 witness: behind a bastion and with sets of one thread, the call raised
\* after the first of five operations had failed and all five were joined.
C26_Witness ==
    /\ pc = "raised"
    /\ bastion_used
    /\ thread_set_size = 1
    /\ Len(thread_list) = 5
    /\ thread_list[1].failed
    /\ AllJoined

\* _wait_for_host_connectivity has returned or raised.
PollLeft == cmd = "poll" /\ pc \in {"bootstrap_hosts", "raised"}

\* Thread i's do_wait has ended with a success and no error of its host on
\* the queue, or with one error of its host on the queue and no success.
EndedOneWay(i) ==
    LET h == InstanceOf(i).private_ip_address
    IN  \/ thread_list[i].succ = 1 /\ ~thread_list[i].failed /\ ErrorsNaming(h) = 0
        \/ thread_list[i].succ = 0 /\ thread_list[i].failed /\ ErrorsNaming(h) = 1

C27_Ends ==
    /\ \A i \in 1..Len(thread_list) :
          (thread_list[i].kind = "do_wait" /\ thread_list[i].st = "done"
           /\ epc # "idle") => EndedOneWay(i)
    /\ PollLeft =>
          \A i \in 1..Len(thread_list) :
              thread_list[i].st = "done" /\ thread_list[i].joined

\* C27: when every probe returns and time passes, every do_wait loop ends,
\* with a success of its host or with one give-up message for its host on
\* the queue and never both, and _wait_for_host_connectivity returns or
\* raises, also when a host never answers.
C27_PollTerminates ==
    /\ <>PollLeft
    /\ [](C27_Ends)

\* C27 witness: of two hosts one never answered and gave up, the other
\* answered, and the phase raised.
C27_Witness ==
    /\ PollLeft
    /\ pc = "raised"
    /\ Len(thread_list) = 2
    /\ \E i, j \in 1..2 :
          /\ thread_list[i].failed /\ thread_list[i].succ = 0
          /\ thread_list[j].succ = 1

====
